---- MODULE Spec2Model ----
(***************************************************************************)
(* Verification model of the timeboost adaptive ingestion engine:          *)
(*   AdaptiveRateLimiter  (src/timeboost/core/AdaptiveRateLimiter.ts)      *)
(*   RoundIndexer         (src/timeboost/core/RoundIndexer.ts, 2nd class)  *)
(*   TransactionIndexer   (src/timeboost/core/TransactionIndexer.ts)       *)
(*   BatchProvider        (core/BatchProvider.ts)                          *)
(* Every asynchronous method is cut at its awaits: one action is the code  *)
(* that runs between two suspension points of the single JS thread.        *)
(***************************************************************************)
EXTENDS Integers, Sequences, FiniteSets, TLC

Min(a, b) == IF a < b THEN a ELSE b
Max(a, b) == IF a > b THEN a ELSE b

(***************************************************************************)
(*                              State                                      *)
(***************************************************************************)

\* AdaptiveRateLimiter
VARIABLES
  queue,               \* AdaptiveRateLimiter.queue: task ids, FIFO
  activeRequests,
  processing,
  currentConcurrency,
  targetConcurrency,
  minConcurrency,
  maxConcurrency,
  decreaseRatioPct,
  backoffDelay,
  successCount,
  failureCount,
  rateLimitCount,
  pqPc,                \* processQueue: "idle" | "backoff" | "sleep"
  taskState,           \* per task: "new" | "queued" | "running" | "settled"
  invoked,             \* per task: how often item.fn() was called
  settles,             \* per task: how often item.resolve/reject was called
  lastSettle,          \* the last settlement: what the task produced, what the caller got
  owedPause            \* a rate-limit failure happened and no backoff sleep began since

arlVars == << queue, activeRequests, processing, currentConcurrency,
              targetConcurrency, minConcurrency, maxConcurrency,
              decreaseRatioPct, backoffDelay, successCount, failureCount,
              rateLimitCount, pqPc, taskState, invoked, settles, lastSettle,
              owedPause >>

\* RoundIndexer, with the calls of indexRound and the worker's position
VARIABLES
  cacheFile,           \* per round: content of round-<r>.json (NoRound: no file)
  indexingQueue,       \* RoundIndexer.indexingQueue: rounds, FIFO
  currentlyIndexing,   \* round or 0 (null)
  roundStatus,         \* per round: "none" | "pending" | "indexing" | "completed" | "error"
  isProcessing,
  wPc,                 \* the worker (processQueue): where it is suspended
  wStartBlock,
  wEndBlock,
  wScanPos,            \* next block getTimeboostedTransactions processes
  wTxs,                \* timeboostedTxs collected by the running scan
  trackedRounds,       \* OngoingRoundIndexer.ongoingRounds: round -> startBlock (0: untracked)
  calls,               \* the indexRound calls in progress
  written,             \* per round: the IndexedRound last handed to a cacheRound that wrote
  workerCompleted,     \* rounds the worker has set 'completed' with their file written
  attemptRateLimited,  \* a remote read of the current attempt failed with a rate-limit signal
  attemptSkipped       \* blocks whose fetch failed and was swallowed in the current attempt

riVars == << cacheFile, indexingQueue, currentlyIndexing, roundStatus,
             isProcessing, wPc, wStartBlock, wEndBlock, wScanPos, wTxs,
             trackedRounds, calls, written, workerCompleted,
             attemptRateLimited, attemptSkipped >>

\* One call of findBlockByTimestamp over a chain
VARIABLES
  fbChain,             \* fbChain[b]: timestamp of block b, b in 1..latest
  fbTarget,            \* targetTimestamp
  fbPosition,          \* "before" | "after"
  fbLow,
  fbHigh,
  fbPc,                \* "idle" | "latest" | "search" | "continue" | "done"
  fbResult,            \* the returned block number (NullBlock: null)
  fbReadFailed,        \* null was returned for a read that threw or gave no latest block
  fbNullProbes,        \* probes that returned no block (`continue`)
  fbProbes             \* probes that returned a block: the comparisons made

fbVars == << fbChain, fbTarget, fbPosition, fbLow, fbHigh, fbPc, fbResult,
             fbReadFailed, fbNullProbes, fbProbes >>

\* BatchProvider
VARIABLES
  batchQueue,          \* BatchProvider.batchQueue: request ids, FIFO
  batchTimer,          \* a flush timer is armed
  requestId,           \* the id the next batched request gets
  batchSize,
  dynamicBatchSize,
  inFlight,            \* flushed batches waiting for the transport, FIFO
  wire,                \* what the awaited rateLimiter.execute of the oldest batch settled with
  wireAttempt,         \* executeWithRetry: failed attempts of the oldest batch's wire call (i)
  wireFailure,         \* what the last failed wire call of the oldest batch threw
  reqSettles,          \* per request: how often resolve/reject was called
  lastFlush            \* the batch settled by the step just taken: what it received, what its requests got

\* RateLimiter (the legacy limiter BatchProvider sends through), its tasks
\* numbered in the order of their execute() calls
VARIABLES
  legacyQueue,         \* RateLimiter.queue
  legacyProcessing,    \* RateLimiter.processing
  retryDelay,          \* RateLimiter.retryDelay
  legacySubmitted,     \* the number of execute() calls made
  legacyState,         \* per task: "new", "queued", "running", "resolved", "rejected"
  legacyAttempts,      \* per task: the calls of fn made for it
  legacyError,         \* per task: what its promise was rejected with (Nothing: not rejected)
  legacyWait,          \* the sleep made in the step just taken (0: none)
  legacyStreak         \* rate-limit failures since the last success

rlVars == << legacyQueue, legacyProcessing, retryDelay, legacySubmitted,
             legacyState, legacyAttempts, legacyError, legacyWait,
             legacyStreak >>

bpVars == << batchQueue, batchTimer, requestId, batchSize, dynamicBatchSize,
             inFlight, wire, wireAttempt, wireFailure, reqSettles, lastFlush,
             rlVars >>

\* BlockTimestampCache
VARIABLES
  cache,               \* BlockTimestampCache.cache: blockNumber -> timestamp (Absent: no entry)
  timestampIndex,      \* timestamp -> block numbers, as the array stored
  maxCacheSize,
  sequentialHints,     \* cacheKey -> lastBlockNumber (Absent: no hint)
  cacheCall,           \* the call made by the step just taken
  cacheOrder,          \* the keys of BlockTimestampCache.cache in the Map's insertion order
  closest              \* what getClosestBlocks returned in the step just taken

btcVars == << cache, timestampIndex, maxCacheSize, sequentialHints, cacheCall,
              cacheOrder, closest >>

\* DatabaseIndexingOrchestrator, with persistence and the RoundIndexer as
\* it sees them
VARIABLES
  isRunning,
  orchKnown,           \* the event parser knows rounds 1..orchKnown
  dbIndexed,           \* rounds whose record in persistence has indexed = 1
  dbFailed,            \* rounds whose indexing status in persistence is 'failed'
  dbStarted,           \* rounds whose indexing status in persistence is 'indexing'
  dbCompleted,         \* rounds whose indexing status in persistence is 'completed'
  orchIndexingQueue,   \* DatabaseIndexingOrchestrator.indexingQueue, in insertion order
  backfillQueue,       \* in insertion order
  identifiedGaps,
  lastIndexedRound,
  oldestIndexedRound,
  idle,                \* Date.now() - lastActivityTime > IDLE_THRESHOLD_MS
  indexerStatus,       \* RoundIndexer.roundStatus: "none" for no status
  indexerQueue,        \* RoundIndexer.indexingQueue
  gapTickDone          \* the step just taken was a gap-detection tick

orVars == << isRunning, orchKnown, dbIndexed, dbFailed, dbStarted,
             dbCompleted, orchIndexingQueue,
             backfillQueue, identifiedGaps, lastIndexedRound,
             oldestIndexedRound, idle, indexerStatus, indexerQueue,
             gapTickDone >>

\* OngoingRoundIndexer following one ongoing round, with the chain's head,
\* the round's cache file and the RoundIndexer's worker indexing the round
VARIABLES
  chainHead,           \* provider.getBlock('latest').number
  roundStartBlock,     \* findBlockByTimestamp(startTimestamp, 'after') of the round
  roundEndBlock,       \* the last block of the round once its endTimestamp has passed (0: ongoing)
  ongoingRounds,       \* OngoingRoundIndexer.ongoingRounds: the round's entry (NotTracked: none)
  ongoingFile,         \* content of the round's cache file (NoRound: no file)
  ongoingScan          \* the block range the worker is scanning (NoScan: none)

ogVars == << chainHead, roundStartBlock, roundEndBlock, ongoingRounds,
             ongoingFile, ongoingScan >>

\* DatabaseIndexingOrchestrator between start() and stop()
VARIABLES
  intervalsArmed,      \* indexingInterval, backfillInterval and gapCheckInterval are set
  initializing,        \* start() is suspended in initializeFromDatabase
  drainBatch,          \* processQueues: the rounds of its slice still to be handled
  drainLoops,          \* the calls of processQueues that have not returned
  intervalSets         \* the sets of three setInterval timers that are not cleared

lcVars == << intervalsArmed, initializing, drainBatch, drainLoops,
             intervalSets >>

vars == << arlVars, riVars, fbVars, bpVars, btcVars, orVars, ogVars, lcVars >>

(***************************************************************************)
(*                        AdaptiveRateLimiter                              *)
(***************************************************************************)

\* Number of tasks handed to execute() in one behaviour.
MaxTasks == 4
Tasks == 1..MaxTasks

\* Successful requests already counted before the behaviour starts (tasks of
\* an earlier burst, all settled, no adjustment since): the counters of
\* adjustConcurrency need 10 samples before they act.
PriorSuccesses == 9

\* Defaults of the constructor (options.x || default).
DefaultInitialConcurrency == 5
DefaultMinConcurrency == 1
DefaultMaxConcurrency == 50
\* increaseRatio 1.2, decreaseRatio 0.5, targetSuccessRate 0.95 in percent.
DefaultIncreaseRatioPct == 120
DefaultDecreaseRatioPct == 50
DefaultTargetSuccessRatePct == 95
DefaultBackoffMultiplier == 2
DefaultMaxBackoffMs == 60000
\* handleRateLimit: first backoff; processQueue: backoff reduction per pause.
InitialBackoffMs == 1000
BackoffStepMs == 1000
\* adjustConcurrency: minimum number of samples.
MinSamples == 10

\* options.x || d : an absent (0) option takes the default.
OrDefault(x, d) == IF x = 0 THEN d ELSE x

\* The option objects the limiter is constructed with: the one of
\* TransactionIndexer (all defaults), and two small ones.
OptionSets ==
  { [initialConcurrency |-> 0, minConcurrency |-> 0, maxConcurrency |-> 0,
     decreaseRatioPct |-> 0],
    [initialConcurrency |-> 2, minConcurrency |-> 1, maxConcurrency |-> 4,
     decreaseRatioPct |-> 50],
    [initialConcurrency |-> 3, minConcurrency |-> 2, maxConcurrency |-> 4,
     decreaseRatioPct |-> 70] }

\* What a task can throw: code, status (0: absent) and message.
Messages == {"", "HTTP 429", "Rate limit exceeded", "Too Many Requests", "timeout"}
Errors ==
  { [code |-> 429, status |-> 0, message |-> ""],
    [code |-> 0, status |-> 429, message |-> ""],
    [code |-> 0, status |-> 0, message |-> "HTTP 429"],
    [code |-> 0, status |-> 0, message |-> "Rate limit exceeded"],
    [code |-> 0, status |-> 0, message |-> "Too Many Requests"],
    [code |-> 0, status |-> 500, message |-> "timeout"],
    [code |-> 0, status |-> 0, message |-> ""] }
TaskValues == {"v1", "v2"}
NoSettle == [task |-> 0, kind |-> "none", value |-> "none", produced |-> "none"]

\* String.includes on the messages above.
Includes429(m) == m \in {"HTTP 429"}
LowerIncludesRateLimit(m) == m \in {"Rate limit exceeded"}
LowerIncludesTooManyRequests(m) == m \in {"Too Many Requests"}

\* The limiter just constructed with one of the option objects of O.
ARLInitFrom(O) ==
  /\ \E o \in O :
       /\ currentConcurrency = OrDefault(o.initialConcurrency, DefaultInitialConcurrency)
       /\ targetConcurrency = OrDefault(o.initialConcurrency, DefaultInitialConcurrency)
       /\ minConcurrency = OrDefault(o.minConcurrency, DefaultMinConcurrency)
       /\ maxConcurrency = OrDefault(o.maxConcurrency, DefaultMaxConcurrency)
       /\ decreaseRatioPct = OrDefault(o.decreaseRatioPct, DefaultDecreaseRatioPct)
  /\ queue = << >>
  /\ activeRequests = 0
  /\ processing = FALSE
  /\ backoffDelay = 0
  /\ successCount \in {0, PriorSuccesses}
  /\ failureCount = 0
  /\ rateLimitCount = 0
  /\ pqPc = "idle"
  /\ taskState = [t \in Tasks |-> "new"]
  /\ invoked = [t \in Tasks |-> 0]
  /\ settles = [t \in Tasks |-> 0]
  /\ lastSettle = NoSettle
  /\ owedPause = FALSE

ARLInit == ARLInitFrom(OptionSets)

\* Option objects that leave a bound to its default: only maxConcurrency
\* given (below the default initial value), only minConcurrency given (above
\* it).
PartialOptionSets ==
  { [initialConcurrency |-> 0, minConcurrency |-> 0, maxConcurrency |-> 3,
     decreaseRatioPct |-> 0],
    [initialConcurrency |-> 0, minConcurrency |-> 6, maxConcurrency |-> 0,
     decreaseRatioPct |-> 0] }

\* The limiter as TransactionIndexer constructs it.
ARLInitDefault ==
  /\ ARLInit
  /\ currentConcurrency = DefaultInitialConcurrency
  /\ minConcurrency = DefaultMinConcurrency
  /\ maxConcurrency = DefaultMaxConcurrency
  /\ decreaseRatioPct = DefaultDecreaseRatioPct
  /\ successCount = 0

\* isRateLimitError(error)
isRateLimitError(e) ==
  \/ e.code = 429
  \/ e.status = 429
  \/ Includes429(e.message)
  \/ LowerIncludesRateLimit(e.message)
  \/ LowerIncludesTooManyRequests(e.message)

\* A dispatch condition that admits one request too many.
CanDispatchOffByOne(qlen, active, conc) == qlen > 0 /\ active <= conc

\* The condition of the inner while of processQueue.
CanDispatch(qlen, active, conc) == qlen > 0 /\ active < conc

\* The inner while of processQueue: how many items it shifts and starts.
RECURSIVE DispatchLoop(_, _, _)
DispatchLoop(qlen, active, conc) ==
  IF CanDispatch(qlen, active, conc)
  THEN 1 + DispatchLoop(qlen - 1, active + 1, conc)
  ELSE 0

\* An inner while that takes the newest items (pop) instead of the oldest.
DispatchNewestFirst(q) ==
  LET n == DispatchLoop(Len(q), activeRequests, currentConcurrency)
      started == {q[i] : i \in (Len(q) - n + 1)..Len(q)}
  IN /\ queue' = SubSeq(q, 1, Len(q) - n)
     /\ activeRequests' = activeRequests + n
     /\ taskState' = [t \in Tasks |->
                        IF t \in started THEN "running"
                        ELSE IF t \in {q[i] : i \in 1..Len(q)} THEN "queued"
                        ELSE taskState[t]]
     /\ invoked' = [t \in Tasks |-> IF t \in started THEN invoked[t] + 1 ELSE invoked[t]]

\* The inner while, applied to the state: the first n items leave the queue,
\* activeRequests grows by n and every item's fn is called (executeRequest
\* runs synchronously up to its await).
Dispatch(q) ==
  LET n == DispatchLoop(Len(q), activeRequests, currentConcurrency)
      started == {q[i] : i \in 1..n}
  IN /\ queue' = SubSeq(q, n + 1, Len(q))
     /\ activeRequests' = activeRequests + n
     /\ taskState' = [t \in Tasks |->
                        IF t \in started THEN "running"
                        ELSE IF t \in {q[i] : i \in 1..Len(q)} THEN "queued"
                        ELSE taskState[t]]
     /\ invoked' = [t \in Tasks |-> IF t \in started THEN invoked[t] + 1 ELSE invoked[t]]

\* One pass of the outer while of processQueue from its top, for queue q:
\* either it suspends in sleep(backoffDelay), or it dispatches and suspends
\* in sleep(100).
LoopPass(q) ==
  IF backoffDelay > 0
  THEN /\ pqPc' = "backoff"
       /\ owedPause' = FALSE
       /\ queue' = q
       /\ taskState' = [t \in Tasks |->
                          IF t \in {q[i] : i \in 1..Len(q)} THEN "queued" ELSE taskState[t]]
       /\ UNCHANGED << activeRequests, invoked, backoffDelay >>
  ELSE /\ pqPc' = "sleep"
       /\ Dispatch(q)
       /\ UNCHANGED << owedPause, backoffDelay >>

\* execute(fn): push, and start processQueue when it is not running.
execute(t) ==
  /\ taskState[t] = "new"
  /\ \A u \in Tasks : u < t => taskState[u] # "new"
  /\ IF ~processing
     THEN /\ processing' = TRUE
          /\ LoopPass(Append(queue, t))
     ELSE /\ queue' = Append(queue, t)
          /\ taskState' = [taskState EXCEPT ![t] = "queued"]
          /\ UNCHANGED << processing, pqPc, activeRequests, invoked, owedPause,
                          backoffDelay >>
  /\ UNCHANGED << currentConcurrency, targetConcurrency, minConcurrency,
                  maxConcurrency, decreaseRatioPct, successCount, failureCount,
                  rateLimitCount, settles, lastSettle >>
  /\ UNCHANGED << riVars, fbVars, bpVars, btcVars, orVars, ogVars, lcVars >>

\* processQueue resumes after sleep(backoffDelay): reduce the backoff,
\* dispatch, sleep(100).
processQueueAfterBackoff ==
  /\ pqPc = "backoff"
  /\ backoffDelay' = Max(0, backoffDelay - BackoffStepMs)
  /\ pqPc' = "sleep"
  /\ Dispatch(queue)
  /\ UNCHANGED << processing, owedPause, currentConcurrency, targetConcurrency,
                  minConcurrency, maxConcurrency, decreaseRatioPct, successCount,
                  failureCount, rateLimitCount, settles, lastSettle >>
  /\ UNCHANGED << riVars, fbVars, bpVars, btcVars, orVars, ogVars, lcVars >>

\* A loop that goes on only while tasks wait in the queue.
LoopContinuesWhileQueued(qlen, active) == qlen > 0

\* `while (this.queue.length > 0 || this.activeRequests > 0)`
LoopContinues(qlen, active) == qlen > 0 \/ active > 0

\* processQueue resumes after sleep(100): leave the loop, or take another pass.
processQueueAfterSleep ==
  /\ pqPc = "sleep"
  /\ IF LoopContinues(Len(queue), activeRequests)
     THEN /\ LoopPass(queue)
          /\ UNCHANGED processing
     ELSE /\ processing' = FALSE
          /\ pqPc' = "idle"
          /\ UNCHANGED << queue, activeRequests, taskState, invoked, owedPause,
                          backoffDelay >>
  /\ UNCHANGED << currentConcurrency, targetConcurrency, minConcurrency,
                  maxConcurrency, decreaseRatioPct, successCount, failureCount,
                  rateLimitCount, settles, lastSettle >>
  /\ UNCHANGED << riVars, fbVars, bpVars, btcVars, orVars, ogVars, lcVars >>

\* A rejection that replaces the task's error by one of the limiter's own.
RejectValueWrapped(e) == [code |-> 0, status |-> 0, message |-> "Rate limit exceeded"]

\* item.reject(error): what the caller's promise is rejected with.
RejectValue(e) == e

\* executeRequest, try branch: the task's promise resolved with v.
executeRequestSuccess(t, v) ==
  /\ taskState[t] = "running"
  /\ successCount' = successCount + 1
  /\ backoffDelay' = IF backoffDelay > 0 THEN (backoffDelay * 9) \div 10 ELSE backoffDelay
  /\ settles' = [settles EXCEPT ![t] = @ + 1]
  /\ lastSettle' = [task |-> t, kind |-> "resolved", value |-> v, produced |-> v]
  /\ taskState' = [taskState EXCEPT ![t] = "settled"]
  /\ activeRequests' = activeRequests - 1
  /\ UNCHANGED << queue, processing, currentConcurrency, targetConcurrency,
                  minConcurrency, maxConcurrency, decreaseRatioPct, failureCount,
                  rateLimitCount, pqPc, invoked, owedPause >>
  /\ UNCHANGED << riVars, fbVars, bpVars, btcVars, orVars, ogVars, lcVars >>

\* A cut that forgets the lower bound.
handleRateLimitConcurrencyNoMin ==
  (currentConcurrency * decreaseRatioPct) \div 100

\* handleRateLimit(): the new concurrency (current and target) and backoff.
handleRateLimitConcurrency ==
  Max(minConcurrency, (currentConcurrency * decreaseRatioPct) \div 100)

handleRateLimitBackoff ==
  IF backoffDelay = 0
  THEN InitialBackoffMs
  ELSE Min(backoffDelay * DefaultBackoffMultiplier, DefaultMaxBackoffMs)

\* executeRequest, catch branch: the task's promise rejected with e.
executeRequestFailure(t, e) ==
  /\ taskState[t] = "running"
  /\ IF isRateLimitError(e)
     THEN /\ rateLimitCount' = rateLimitCount + 1
          /\ targetConcurrency' = handleRateLimitConcurrency
          /\ currentConcurrency' = handleRateLimitConcurrency
          /\ backoffDelay' = handleRateLimitBackoff
          /\ owedPause' = TRUE
          /\ UNCHANGED failureCount
     ELSE /\ failureCount' = failureCount + 1
          /\ UNCHANGED << rateLimitCount, targetConcurrency, currentConcurrency,
                          backoffDelay, owedPause >>
  /\ settles' = [settles EXCEPT ![t] = @ + 1]
  /\ lastSettle' = [task |-> t, kind |-> "rejected", value |-> RejectValue(e),
                   produced |-> e]
  /\ taskState' = [taskState EXCEPT ![t] = "settled"]
  /\ activeRequests' = activeRequests - 1
  /\ UNCHANGED << queue, processing, minConcurrency, maxConcurrency,
                  decreaseRatioPct, successCount, pqPc, invoked >>
  /\ UNCHANGED << riVars, fbVars, bpVars, btcVars, orVars, ogVars, lcVars >>

\* A tick that sets the current concurrency to the target at once.
StepTowardAtOnce(current, target) == target

\* The last part of adjustConcurrency: the current concurrency moves towards
\* the target.
StepToward(current, target) ==
  IF current < target
  THEN Min(current + 1, target)
  ELSE IF current > target
  THEN Max(current - 1, target)
  ELSE current

\* adjustConcurrency(): one tick of the interval timer. The two clock
\* comparisons (time since the last adjustment, time since the last success)
\* are inputs.
adjustConcurrency(intervalElapsed, recentlySuccessful) ==
  LET total == successCount + failureCount
      newTarget ==
        IF recentlySuccessful
           /\ successCount * 100 >= DefaultTargetSuccessRatePct * total
        THEN Min(maxConcurrency, (targetConcurrency * DefaultIncreaseRatioPct) \div 100)
        ELSE IF successCount * 1000 < DefaultTargetSuccessRatePct * 9 * total
        THEN Max(minConcurrency, (targetConcurrency * 9) \div 10)
        ELSE targetConcurrency
      newCurrent == StepToward(currentConcurrency, newTarget)
  IN /\ intervalElapsed
     /\ total >= MinSamples
     /\ successCount' = 0
     /\ failureCount' = 0
     /\ rateLimitCount' = 0
     /\ targetConcurrency' = newTarget
     /\ currentConcurrency' = newCurrent
     /\ UNCHANGED << queue, activeRequests, processing, minConcurrency,
                     maxConcurrency, decreaseRatioPct, backoffDelay, pqPc,
                     taskState, invoked, settles, lastSettle, owedPause >>
     /\ UNCHANGED << riVars, fbVars, bpVars, btcVars, orVars, ogVars, lcVars >>

\* MinSamples requests are executed between two ticks and every one of
\* them resolves, the last one inside the success window of the next tick:
\* what executeRequest leaves of them once they have settled.
successfulBurst ==
  /\ successCount + failureCount < MinSamples
  /\ successCount' = successCount + MinSamples
  /\ UNCHANGED << queue, activeRequests, processing, currentConcurrency,
                  targetConcurrency, minConcurrency, maxConcurrency,
                  decreaseRatioPct, backoffDelay, failureCount, rateLimitCount,
                  pqPc, taskState, invoked, settles, lastSettle, owedPause >>
  /\ UNCHANGED << riVars, fbVars, bpVars, btcVars, orVars, ogVars, lcVars >>

\* MinSamples requests executed between two ticks all fail with an error that
\* is no rate limit: what the catch branch of executeRequest leaves of them.
failedBurst ==
  /\ successCount + failureCount < MinSamples
  /\ failureCount' = failureCount + MinSamples
  /\ UNCHANGED << queue, activeRequests, processing, currentConcurrency,
                  targetConcurrency, minConcurrency, maxConcurrency,
                  decreaseRatioPct, backoffDelay, successCount, rateLimitCount,
                  pqPc, taskState, invoked, settles, lastSettle, owedPause >>
  /\ UNCHANGED << riVars, fbVars, bpVars, btcVars, orVars, ogVars, lcVars >>

\* A limiter at rest whose concurrency (current and target) is any value of
\* [minConcurrency, maxConcurrency], as handleRateLimit or the constructor
\* leave it.
ARLInitRecovering ==
  /\ \E o \in OptionSets :
       /\ minConcurrency = OrDefault(o.minConcurrency, DefaultMinConcurrency)
       /\ maxConcurrency = OrDefault(o.maxConcurrency, DefaultMaxConcurrency)
       /\ decreaseRatioPct = OrDefault(o.decreaseRatioPct, DefaultDecreaseRatioPct)
  /\ \E c \in minConcurrency..maxConcurrency :
       /\ currentConcurrency = c
       /\ targetConcurrency = c
  /\ queue = << >>
  /\ activeRequests = 0
  /\ processing = FALSE
  /\ backoffDelay \in {0, InitialBackoffMs}
  /\ successCount = 0
  /\ failureCount = 0
  /\ rateLimitCount = 0
  /\ pqPc = "idle"
  /\ taskState = [t \in Tasks |-> "new"]
  /\ invoked = [t \in Tasks |-> 0]
  /\ settles = [t \in Tasks |-> 0]
  /\ lastSettle = NoSettle
  /\ owedPause = FALSE

ARLRecoveryNext ==
  \/ successfulBurst
  \/ adjustConcurrency(TRUE, TRUE)

(***************************************************************************)
(*        Timestamp-to-block resolver (findBlockByTimestamp)               *)
(***************************************************************************)

\* `return null`; a block number of 0 is falsy like null for the callers.
NullBlock == 0 - 1
Falsy(b) == b = NullBlock \/ b = 0

\* One comparison of the binary search: the interval after probing mid, whose
\* block has timestamp ts; found is the `return mid` of the exact match.
ProbeStep(low, high, mid, ts, target) ==
  IF ts = target THEN [found |-> TRUE, low |-> low, high |-> high]
  ELSE IF ts < target THEN [found |-> FALSE, low |-> mid + 1, high |-> high]
  ELSE [found |-> FALSE, low |-> low, high |-> mid - 1]

\* A probe without a block taken for a block below the target.
NullProbeAsBelow(low, high, mid) == [low |-> mid + 1, high |-> high]

\* `if (!block) continue`: the interval after a probe that returned no block.
NullProbe(low, high, mid) == [low |-> low, high |-> high]

\* `return position === 'before' ? high : low` once low > high.
Collapsed(low, high, position) == IF position = "before" THEN high ELSE low

\* The whole search over the chain ts (ts[b]: timestamp of block b) when
\* every probe returns its block.
RECURSIVE BinarySearch(_, _, _, _, _)
BinarySearch(ts, low, high, target, position) ==
  IF low > high THEN Collapsed(low, high, position)
  ELSE LET mid == (low + high) \div 2
           st == ProbeStep(low, high, mid, ts[mid], target)
       IN IF st.found THEN mid
          ELSE BinarySearch(ts, st.low, st.high, target, position)

\* findBlockByTimestamp on a chain whose reads succeed: low = 1,
\* high = latestBlock.number.
findBlockByTimestamp(ts, target, position) ==
  BinarySearch(ts, 1, Len(ts), target, position)

\* The chains a call is run on: 1..MaxChainLen blocks, timestamps in
\* 1..MaxTimestamp that never decrease from one block to the next (blocks
\* of the same second share a timestamp).
MaxChainLen == 4
MaxTimestamp == 4
\* `if (!block) continue` probes the same block again; probes without a
\* block are counted up to this bound.
MaxNullProbes == 2

Chains ==
  { c \in UNION { [1..n -> 1..MaxTimestamp] : n \in 1..MaxChainLen } :
      \A i \in 1..(Len(c) - 1) : c[i] <= c[i + 1] }

\* A call findBlockByTimestamp(target, position) is about to read 'latest'.
FBInit ==
  /\ fbChain \in Chains
  /\ fbTarget \in 0..(MaxTimestamp + 1)
  /\ fbPosition \in {"before", "after"}
  /\ fbLow = 0
  /\ fbHigh = 0
  /\ fbPc = "latest"
  /\ fbResult = NullBlock
  /\ fbReadFailed = FALSE
  /\ fbNullProbes = 0
  /\ fbProbes = 0

\* No call of the resolver is in progress.
FBInitIdle ==
  /\ fbChain = << 1 >>
  /\ fbTarget = 0
  /\ fbPosition = "after"
  /\ fbLow = 0
  /\ fbHigh = 0
  /\ fbPc = "idle"
  /\ fbResult = NullBlock
  /\ fbReadFailed = FALSE
  /\ fbNullProbes = 0
  /\ fbProbes = 0

\* `catch (error) { ...; return null }`
fbCatch ==
  /\ fbResult' = NullBlock
  /\ fbPc' = "done"
  /\ fbReadFailed' = TRUE

\* getBlock('latest') settled: low = 1, high = latestBlock.number; no block
\* returns null, a failed read is caught.
fbGetLatest(o) ==
  /\ fbPc = "latest"
  /\ CASE o = "ok" ->
            /\ fbLow' = 1
            /\ fbHigh' = Len(fbChain)
            /\ fbPc' = "search"
            /\ UNCHANGED << fbResult, fbReadFailed >>
       [] o = "null" ->
            /\ fbResult' = NullBlock
            /\ fbPc' = "done"
            /\ fbReadFailed' = TRUE
            /\ UNCHANGED << fbLow, fbHigh >>
       [] OTHER ->
            /\ fbCatch
            /\ UNCHANGED << fbLow, fbHigh >>
  /\ UNCHANGED << fbChain, fbTarget, fbPosition, fbNullProbes, fbProbes >>
  /\ UNCHANGED << arlVars, riVars, bpVars, btcVars, orVars, ogVars, lcVars >>

\* getBlock(mid) settled inside `while (low <= high)`: one comparison, then
\* the loop test; when the interval has collapsed the call returns.
fbProbe(o) ==
  /\ fbPc = "search"
  /\ LET mid == (fbLow + fbHigh) \div 2
         st == ProbeStep(fbLow, fbHigh, mid, fbChain[mid], fbTarget)
     IN CASE o = "ok" ->
               /\ fbLow' = st.low
               /\ fbHigh' = st.high
               /\ fbResult' = IF st.found THEN mid
                              ELSE IF st.low > st.high
                                   THEN Collapsed(st.low, st.high, fbPosition)
                                   ELSE fbResult
               /\ fbPc' = IF st.found \/ st.low > st.high THEN "done" ELSE "search"
               /\ fbProbes' = fbProbes + 1
               /\ UNCHANGED << fbReadFailed, fbNullProbes >>
          [] o = "null" ->
               /\ fbNullProbes < MaxNullProbes
               /\ fbNullProbes' = fbNullProbes + 1
               /\ fbLow' = NullProbe(fbLow, fbHigh, mid).low
               /\ fbHigh' = NullProbe(fbLow, fbHigh, mid).high
               /\ UNCHANGED << fbResult, fbPc, fbReadFailed, fbProbes >>
          [] OTHER ->
               /\ fbCatch
               /\ UNCHANGED << fbLow, fbHigh, fbNullProbes, fbProbes >>
  /\ UNCHANGED << fbChain, fbTarget, fbPosition >>
  /\ UNCHANGED << arlVars, riVars, bpVars, btcVars, orVars, ogVars, lcVars >>

\* getBlock(mid) settled with no block, for a block that no fetch returns:
\* `if (!block) continue`.
fbProbeUnavailable ==
  /\ fbPc = "search"
  /\ fbPc' = "continue"
  /\ UNCHANGED << fbChain, fbTarget, fbPosition, fbLow, fbHigh, fbResult,
                  fbReadFailed, fbNullProbes, fbProbes >>
  /\ UNCHANGED << arlVars, riVars, bpVars, btcVars, orVars, ogVars, lcVars >>

\* After `continue`: `while (low <= high)` holds as before, mid is computed
\* anew and getBlock(mid) called again.
fbContinue ==
  /\ fbPc = "continue"
  /\ fbPc' = "search"
  /\ fbLow' = NullProbe(fbLow, fbHigh, (fbLow + fbHigh) \div 2).low
  /\ fbHigh' = NullProbe(fbLow, fbHigh, (fbLow + fbHigh) \div 2).high
  /\ UNCHANGED << fbChain, fbTarget, fbPosition, fbResult, fbReadFailed,
                  fbNullProbes, fbProbes >>
  /\ UNCHANGED << arlVars, riVars, bpVars, btcVars, orVars, ogVars, lcVars >>

ReadOutcomes == {"ok", "null", "error"}

\* A read settles, whatever it settles with.
fbReadSettles ==
  \/ \E o \in ReadOutcomes : fbGetLatest(o)
  \/ \E o \in ReadOutcomes : fbProbe(o)
  \/ fbProbeUnavailable

FBLiveNext ==
  \/ \E o \in ReadOutcomes : fbGetLatest(o)
  \/ \E o \in ReadOutcomes : fbProbe(o)
  \/ fbProbeUnavailable
  \/ fbContinue

FBNext ==
  \/ \E o \in ReadOutcomes : fbGetLatest(o)
  \/ \E o \in ReadOutcomes : fbProbe(o)

(***************************************************************************)
(*                           BatchProvider                                 *)
(***************************************************************************)

\* Number of calls of send() in one behaviour.
MaxRequests == 6
Requests == 1..MaxRequests
\* The batchSize option, and what updateBatchSize is called with.
BatchSizes == {2, 6}
DefaultBatchSize == 100
MinBatchSize == 1
MaxBatchSize == 1000
Methods == {"eth_getBlockByNumber", "eth_blockNumber"}

\* What a promise is settled with: a result, the message of an Error, or
\* the object the transport threw.
Payload(text, of) == [text |-> text, of |-> of]
Nothing == Payload("", 0)
ResultOf(id) == Payload("result", id)
ErrorMessageOf(id) == Payload("rpc error", id)
NoResponseMessage == Payload("No response for request", 0)
\* What sendBatchRequest throws: the rate-limit object { code: 429, ... }
\* and the Error of another HTTP status (of: the error's code).
RateLimitedWire == Payload("Rate limited", 429)
WireErrors == {RateLimitedWire, Payload("HTTP error! status: 500", 0)}
\* RateLimiter.executeWithRetry: number of attempts, what it recognises as
\* rate limited, and the Error it throws once the attempts are used up.
LegacyRetries == 3
LegacyIs429(e) == e.of = 429 \/ Includes429(e.text)
RetriesExhausted == Payload("Rate limited after 3 retries", 0)

\* RateLimiter on its own: tasks submitted through execute(), run by
\* processQueue one after the other, each through executeWithRetry.
MaxLegacyTasks == 3
LegacyTasks == 1..MaxLegacyTasks
InitialRetryDelay == 1000
MaxRetryDelay == 60000

RLInit ==
  /\ legacyQueue = << >>
  /\ legacyProcessing = FALSE
  /\ retryDelay = InitialRetryDelay
  /\ legacySubmitted = 0
  /\ legacyState = [t \in LegacyTasks |-> "new"]
  /\ legacyAttempts = [t \in LegacyTasks |-> 0]
  /\ legacyError = [t \in LegacyTasks |-> Nothing]
  /\ legacyWait = 0
  /\ legacyStreak = 0

\* The delay doubled without the cap of maxRetryDelay.
NextRetryDelayUncapped(delay) == delay * 2

\* Math.min(this.retryDelay * 2, this.maxRetryDelay)
NextRetryDelay(delay) == Min(delay * 2, MaxRetryDelay)

\* execute(fn): the task is pushed, and processQueue is entered unless it
\* is running; processQueue then sets processing.
legacyExecute ==
  /\ legacySubmitted < MaxLegacyTasks
  /\ legacySubmitted' = legacySubmitted + 1
  /\ legacyQueue' = Append(legacyQueue, legacySubmitted + 1)
  /\ legacyState' = [legacyState EXCEPT ![legacySubmitted + 1] = "queued"]
  /\ legacyProcessing' = TRUE
  /\ legacyWait' = 0
  /\ UNCHANGED << retryDelay, legacyAttempts, legacyError, legacyStreak >>
  /\ UNCHANGED << batchQueue, batchTimer, requestId, batchSize,
                  dynamicBatchSize, inFlight, wire, wireAttempt, wireFailure,
                  reqSettles, lastFlush >>
  /\ UNCHANGED << arlVars, riVars, fbVars, btcVars, orVars, ogVars, lcVars >>

\* processQueue, an iteration of its loop up to `await task()`: the oldest
\* task is shifted off the queue and executeWithRetry makes its first call
\* of fn.
legacyProcessQueue ==
  /\ legacyProcessing
  /\ \A t \in LegacyTasks : legacyState[t] # "running"
  /\ legacyQueue # << >>
  /\ legacyQueue' = Tail(legacyQueue)
  /\ legacyState' = [legacyState EXCEPT ![Head(legacyQueue)] = "running"]
  /\ legacyAttempts' = [legacyAttempts EXCEPT ![Head(legacyQueue)] = 1]
  /\ legacyWait' = 0
  /\ UNCHANGED << legacyProcessing, retryDelay, legacySubmitted, legacyError,
                  legacyStreak >>
  /\ UNCHANGED << batchQueue, batchTimer, requestId, batchSize,
                  dynamicBatchSize, inFlight, wire, wireAttempt, wireFailure,
                  reqSettles, lastFlush >>
  /\ UNCHANGED << arlVars, riVars, fbVars, btcVars, orVars, ogVars, lcVars >>

\* processQueue finds the queue empty after a task and clears processing.
legacyProcessQueueEnds ==
  /\ legacyProcessing
  /\ \A t \in LegacyTasks : legacyState[t] # "running"
  /\ legacyQueue = << >>
  /\ legacyProcessing' = FALSE
  /\ legacyWait' = 0
  /\ UNCHANGED << legacyQueue, retryDelay, legacySubmitted, legacyState,
                  legacyAttempts, legacyError, legacyStreak >>
  /\ UNCHANGED << batchQueue, batchTimer, requestId, batchSize,
                  dynamicBatchSize, inFlight, wire, wireAttempt, wireFailure,
                  reqSettles, lastFlush >>
  /\ UNCHANGED << arlVars, riVars, fbVars, btcVars, orVars, ogVars, lcVars >>

\* executeWithRetry, a call of fn returns: the delay is reset and the task
\* resolved.
legacyCallReturns(t) ==
  /\ legacyState[t] = "running"
  /\ retryDelay' = InitialRetryDelay
  /\ legacyState' = [legacyState EXCEPT ![t] = "resolved"]
  /\ legacyStreak' = 0
  /\ legacyWait' = 0
  /\ UNCHANGED << legacyQueue, legacyProcessing, legacySubmitted,
                  legacyAttempts, legacyError >>
  /\ UNCHANGED << batchQueue, batchTimer, requestId, batchSize,
                  dynamicBatchSize, inFlight, wire, wireAttempt, wireFailure,
                  reqSettles, lastFlush >>
  /\ UNCHANGED << arlVars, riVars, fbVars, btcVars, orVars, ogVars, lcVars >>

\* executeWithRetry, a call of fn throws: a rate-limit error is slept out
\* for retryDelay and the delay doubled, then fn is called again or, after
\* the last attempt, a new Error thrown; any other error is thrown on.
legacyCallThrows(t, error) ==
  /\ legacyState[t] = "running"
  /\ IF LegacyIs429(error)
     THEN /\ legacyWait' = retryDelay
          /\ retryDelay' = NextRetryDelay(retryDelay)
          /\ legacyStreak' = legacyStreak + 1
          /\ IF legacyAttempts[t] = LegacyRetries
             THEN /\ legacyState' = [legacyState EXCEPT ![t] = "rejected"]
                  /\ legacyError' = [legacyError EXCEPT ![t] = RetriesExhausted]
                  /\ UNCHANGED legacyAttempts
             ELSE /\ legacyAttempts' = [legacyAttempts EXCEPT ![t] = @ + 1]
                  /\ UNCHANGED << legacyState, legacyError >>
     ELSE /\ legacyState' = [legacyState EXCEPT ![t] = "rejected"]
          /\ legacyError' = [legacyError EXCEPT ![t] = error]
          /\ legacyWait' = 0
          /\ UNCHANGED << retryDelay, legacyAttempts, legacyStreak >>
  /\ UNCHANGED << legacyQueue, legacyProcessing, legacySubmitted >>
  /\ UNCHANGED << batchQueue, batchTimer, requestId, batchSize,
                  dynamicBatchSize, inFlight, wire, wireAttempt, wireFailure,
                  reqSettles, lastFlush >>
  /\ UNCHANGED << arlVars, riVars, fbVars, btcVars, orVars, ogVars, lcVars >>

RLNext ==
  \/ legacyExecute
  \/ legacyProcessQueue
  \/ legacyProcessQueueEnds
  \/ \E t \in LegacyTasks : legacyCallReturns(t)
  \/ \E t \in LegacyTasks, error \in WireErrors : legacyCallThrows(t, error)

Resolved(v) == [kind |-> "resolved", value |-> v]
Rejected(m) == [kind |-> "rejected", value |-> m]
NoWire == [kind |-> "none", responses |-> << >>, error |-> Nothing]
Returned(responses) == [kind |-> "responses", responses |-> responses, error |-> Nothing]
Threw(error) == [kind |-> "error", responses |-> << >>, error |-> error]
NoFlush == [batch |-> << >>, answered |-> FALSE, responses |-> 0, outcomes |-> << >>]

\* One element of the array the transport returns.
Response(id, k) ==
  [id |-> id,
   error |-> IF k = "error" THEN ErrorMessageOf(id) ELSE Nothing,
   result |-> IF k = "result" THEN ResultOf(id) ELSE Nothing]
NoResponse == [id |-> 0 - 1, error |-> Nothing, result |-> Nothing]

RECURSIVE ResponsesFor(_, _)
ResponsesFor(batch, kind) ==
  IF batch = << >> THEN << >>
  ELSE LET rest == ResponsesFor(Tail(batch), kind)
       IN IF kind[Head(batch)] = "missing" THEN rest
          ELSE << Response(Head(batch), kind[Head(batch)]) >> \o rest

RECURSIVE Reverse(_)
Reverse(s) == IF s = << >> THEN << >> ELSE Append(Reverse(Tail(s)), Head(s))

\* At most this many requests of one batch get an error or no response.
MaxFaults == 1

\* The arrays the transport may answer a batch with: per request a result,
\* an error or nothing; in request order, or reversed, or with one more
\* response that carries the id after the batch's last, or with one that
\* carries the first request's id a second time (as an error).
ResponseArrays(batch) ==
  LET ids == { batch[i] : i \in DOMAIN batch }
      kinds == { k \in [ids -> {"result", "error", "missing"}] :
                   Cardinality({ id \in ids : k[id] # "result" }) <= MaxFaults }
  IN { CASE shape = "reversed" -> Reverse(ResponsesFor(batch, kind))
         [] shape = "foreign" ->
              Append(ResponsesFor(batch, kind),
                     Response(batch[Len(batch)] + 1, "result"))
         [] shape = "duplicate" ->
              Append(ResponsesFor(batch, kind), Response(batch[1], "error"))
         [] OTHER -> ResponsesFor(batch, kind) :
       kind \in kinds,
       shape \in {"inOrder", "reversed", "foreign", "duplicate"} }

BPInit ==
  /\ batchQueue = << >>
  /\ batchTimer = FALSE
  /\ requestId = 1
  /\ batchSize \in BatchSizes
  /\ dynamicBatchSize \in BOOLEAN
  /\ inFlight = << >>
  /\ wire = NoWire
  /\ wireAttempt = 0
  /\ wireFailure = Nothing
  /\ reqSettles = [id \in Requests |-> 0]
  /\ lastFlush = NoFlush
  /\ RLInit

\* The provider as TransactionIndexer constructs it, nothing sent.
BPInitDefault ==
  /\ batchQueue = << >>
  /\ batchTimer = FALSE
  /\ requestId = 1
  /\ batchSize = DefaultBatchSize
  /\ dynamicBatchSize = FALSE
  /\ inFlight = << >>
  /\ wire = NoWire
  /\ wireAttempt = 0
  /\ wireFailure = Nothing
  /\ reqSettles = [id \in Requests |-> 0]
  /\ lastFlush = NoFlush
  /\ RLInit

shouldBatch(m) == m \in {"eth_getTransactionReceipt", "eth_getBlockByNumber",
                         "eth_getBlockByHash", "eth_getTransactionByHash",
                         "eth_call", "eth_getLogs"}

\* processBatch up to its await: the timer is cleared, and the first
\* currentBatchSize requests of q leave the queue as one batch handed to
\* rateLimiter.execute.
processBatch(q) ==
  /\ batchTimer' = FALSE
  /\ IF q = << >>
     THEN /\ batchQueue' = q
          /\ UNCHANGED inFlight
     ELSE LET currentBatchSize ==
                IF dynamicBatchSize
                THEN Min(batchSize, Max(5, batchSize \div 2))
                ELSE batchSize
              n == Min(currentBatchSize, Len(q))
          IN /\ batchQueue' = SubSeq(q, n + 1, Len(q))
             /\ inFlight' = Append(inFlight, SubSeq(q, 1, n))

\* addToBatch: the request gets the next id and joins the queue; a full
\* queue is flushed at once, else a timer is armed unless one is.
addToBatch ==
  /\ requestId' = requestId + 1
  /\ IF Len(batchQueue) + 1 >= batchSize
     THEN processBatch(Append(batchQueue, requestId))
     ELSE /\ batchQueue' = Append(batchQueue, requestId)
          /\ batchTimer' = TRUE
          /\ UNCHANGED inFlight

\* send(method, params): a method that is not batched goes to the rate
\* limiter directly and leaves the batching state alone.
send(m) ==
  /\ requestId <= MaxRequests
  /\ IF shouldBatch(m)
     THEN addToBatch
     ELSE UNCHANGED << batchQueue, batchTimer, requestId, inFlight >>
  /\ UNCHANGED << batchSize, dynamicBatchSize, wire, wireAttempt, wireFailure,
                  reqSettles >>
  /\ lastFlush' = NoFlush
  /\ UNCHANGED << arlVars, riVars, fbVars, btcVars, orVars, ogVars, lcVars, rlVars >>

\* The flush timer fires.
batchTimerFires ==
  /\ batchTimer
  /\ processBatch(batchQueue)
  /\ UNCHANGED << requestId, batchSize, dynamicBatchSize, wire, wireAttempt,
                  wireFailure, reqSettles >>
  /\ lastFlush' = NoFlush
  /\ UNCHANGED << arlVars, riVars, fbVars, btcVars, orVars, ogVars, lcVars, rlVars >>

\* A wire call of the oldest batch settles inside
\* rateLimiter.execute(() => sendBatchRequest(batch)), which runs one call
\* at a time in the order of the flushes: the parsed response array is
\* handed to processBatch; a rate-limit error is waited out and the call
\* made again, and after the last attempt replaced by a new Error; any
\* other error is thrown on as it is.
executeWithRetry(o) ==
  /\ inFlight # << >>
  /\ wire = NoWire
  /\ IF o.kind = "responses"
     THEN /\ wire' = o
          /\ UNCHANGED << wireAttempt, wireFailure >>
     ELSE /\ wireFailure' = o.error
          /\ IF LegacyIs429(o.error)
             THEN IF wireAttempt = LegacyRetries - 1
                  THEN /\ wire' = Threw(RetriesExhausted)
                       /\ UNCHANGED wireAttempt
                  ELSE /\ wireAttempt' = wireAttempt + 1
                       /\ UNCHANGED wire
             ELSE /\ wire' = o
                  /\ UNCHANGED wireAttempt
  /\ UNCHANGED << batchQueue, batchTimer, requestId, batchSize,
                  dynamicBatchSize, inFlight, reqSettles >>
  /\ lastFlush' = NoFlush
  /\ UNCHANGED << arlVars, riVars, fbVars, btcVars, orVars, ogVars, lcVars, rlVars >>

\* The response a request would get if responses were matched by position.
ResponseAtPosition(responses, i, id) ==
  IF i \in DOMAIN responses THEN responses[i] ELSE NoResponse

\* responseMap.get(req.id): new Map(responses.map(res => [res.id, res]))
\* keeps, of the responses carrying one id, the last. i is the request's
\* position in the batch.
responseMapGet(responses, i, id) ==
  LET own == { j \in DOMAIN responses : responses[j].id = id }
  IN IF own = {} THEN NoResponse
     ELSE responses[CHOOSE j \in own : \A k \in own : k <= j]

\* What batch.forEach settles a request with.
MatchOutcome(response) ==
  IF response = NoResponse THEN Rejected(NoResponseMessage)
  ELSE IF response.error # Nothing THEN Rejected(response.error)
  ELSE Resolved(response.result)

InBatch(batch, id) == \E i \in DOMAIN batch : batch[i] = id

\* processBatch resumes after its await: with the response array every
\* request of the batch is settled from the response map; in the catch
\* every request of the batch is rejected with the error.
processBatchResume ==
  /\ wire # NoWire
  /\ LET batch == Head(inFlight)
     IN /\ reqSettles' =
             [id \in Requests |->
                IF InBatch(batch, id) THEN reqSettles[id] + 1 ELSE reqSettles[id]]
        /\ lastFlush' =
             [batch |-> batch,
              answered |-> wire.kind = "responses",
              responses |-> Len(wire.responses),
              outcomes |->
                [i \in DOMAIN batch |->
                   IF wire.kind = "error" THEN Rejected(wire.error)
                   ELSE MatchOutcome(responseMapGet(wire.responses, i, batch[i]))]]
  /\ inFlight' = Tail(inFlight)
  /\ wire' = NoWire
  /\ wireAttempt' = 0
  /\ wireFailure' = Nothing
  /\ UNCHANGED << batchQueue, batchTimer, requestId, batchSize, dynamicBatchSize >>
  /\ UNCHANGED << arlVars, riVars, fbVars, btcVars, orVars, ogVars, lcVars, rlVars >>

updateBatchSize(newBatchSize) ==
  /\ batchSize' = Max(MinBatchSize, Min(MaxBatchSize, newBatchSize))
  /\ UNCHANGED << batchQueue, batchTimer, requestId, dynamicBatchSize,
                  inFlight, wire, wireAttempt, wireFailure, reqSettles >>
  /\ lastFlush' = NoFlush
  /\ UNCHANGED << arlVars, riVars, fbVars, btcVars, orVars, ogVars, lcVars, rlVars >>

BPNext ==
  \/ \E m \in Methods : send(m)
  \/ batchTimerFires
  \/ \E responses \in (IF inFlight = << >> THEN {} ELSE ResponseArrays(Head(inFlight))) :
       executeWithRetry(Returned(responses))
  \/ \E error \in WireErrors : executeWithRetry(Threw(error))
  \/ processBatchResume
  \/ \E n \in BatchSizes : updateBatchSize(n)

(***************************************************************************)
(*                        BlockTimestampCache                              *)
(***************************************************************************)

\* Block numbers and timestamps the cache is called with, and capacities.
MaxCacheBlock == 3
MaxCacheTimestamp == 2
MaxCapacity == 3
CacheBlocks == 1..MaxCacheBlock
CacheTimestamps == 1..MaxCacheTimestamp
Capacities == 1..MaxCapacity
HintKeys == {"after"}
\* Map.get of a key without entry.
Absent == 0

NoCacheCall == [op |-> "none", blockNumber |-> Absent, timestamp |-> Absent]
\* undefined for a CacheEntry, and no call of getClosestBlocks.
NoEntry == [blockNumber |-> Absent, timestamp |-> Absent]
NoClosest == [called |-> FALSE, timestamp |-> Absent, before |-> NoEntry, after |-> NoEntry]
\* The timestamps getClosestBlocks is asked for: from before every cached
\* timestamp to the greatest one.
ClosestTargets == 0..MaxCacheTimestamp

\* this.cache.keys(), size() and Math.min(...keys).
cacheKeys(c) == { b \in CacheBlocks : c[b] # Absent }
size == Cardinality(cacheKeys(cache))
get(blockNumber) == cache[blockNumber]
getBlocksByTimestamp(timestamp) == timestampIndex[timestamp]
MinOf(S) == CHOOSE x \in S : \A y \in S : x <= y

Includes(blocks, b) == \E i \in DOMAIN blocks : blocks[i] = b

RECURSIVE InsertAscending(_, _)
InsertAscending(sorted, b) ==
  IF sorted = << >> THEN << b >>
  ELSE IF b < Head(sorted) THEN << b >> \o sorted
  ELSE << Head(sorted) >> \o InsertAscending(Tail(sorted), b)

\* blocks.sort((a, b) => a - b)
RECURSIVE SortAscending(_)
SortAscending(blocks) ==
  IF blocks = << >> THEN << >>
  ELSE InsertAscending(SortAscending(Tail(blocks)), Head(blocks))

BTCStart(capacity) ==
  /\ cache = [b \in CacheBlocks |-> Absent]
  /\ timestampIndex = [t \in CacheTimestamps |-> << >>]
  /\ maxCacheSize = capacity
  /\ sequentialHints = [k \in HintKeys |-> Absent]
  /\ cacheCall = NoCacheCall
  /\ cacheOrder = << >>
  /\ closest = NoClosest

BTCInit == \E capacity \in Capacities : BTCStart(capacity)

\* The orders in which blocks can have been inserted into the Map.
InsertionOrders ==
  { q \in UNION { [1..n -> CacheBlocks] : n \in 0..MaxCacheBlock } :
      \A i, j \in DOMAIN q : i # j => q[i] # q[j] }

\* A cache of the greatest capacity after sets of distinct blocks, in any
\* order and with any timestamps.
BTCInitFilled ==
  \E order \in InsertionOrders, ts \in [CacheBlocks -> CacheTimestamps] :
    /\ cache = [b \in CacheBlocks |-> IF Includes(order, b) THEN ts[b] ELSE Absent]
    /\ timestampIndex =
         [t \in CacheTimestamps |->
            SelectSeq([b \in CacheBlocks |-> b],
                      LAMBDA b : Includes(order, b) /\ ts[b] = t)]
    /\ maxCacheSize = MaxCapacity
    /\ sequentialHints = [k \in HintKeys |-> Absent]
    /\ cacheCall = NoCacheCall
    /\ cacheOrder = order
    /\ closest = NoClosest
BTCInitIdle == BTCStart(MaxCapacity)

\* The eviction of set: when the cache is full the entry of the smallest
\* block number leaves the cache and the list of its timestamp.
EvictOldest(c, index) ==
  IF Cardinality(cacheKeys(c)) >= maxCacheSize /\ cacheKeys(c) # {}
  THEN LET oldestBlock == MinOf(cacheKeys(c))
           oldestTimestamp == c[oldestBlock]
       IN [cache |-> [c EXCEPT ![oldestBlock] = Absent],
           index |-> [index EXCEPT ![oldestTimestamp] =
                        SelectSeq(index[oldestTimestamp], LAMBDA b : b # oldestBlock)]]
  ELSE [cache |-> c, index |-> index]

\* set(blockNumber, timestamp)
set(blockNumber, timestamp) ==
  LET evicted == EvictOldest(cache, timestampIndex)
      blocks == evicted.index[timestamp]
  IN /\ cache' = [evicted.cache EXCEPT ![blockNumber] = timestamp]
     /\ timestampIndex' =
          IF Includes(blocks, blockNumber) THEN evicted.index
          ELSE [evicted.index EXCEPT ![timestamp] =
                  SortAscending(Append(blocks, blockNumber))]
     /\ cacheCall' = [op |-> "set", blockNumber |-> blockNumber, timestamp |-> timestamp]
     /\ cacheOrder' =
          LET kept == SelectSeq(cacheOrder, LAMBDA b : evicted.cache[b] # Absent)
          IN IF Includes(kept, blockNumber) THEN kept ELSE Append(kept, blockNumber)
     /\ closest' = NoClosest
     /\ UNCHANGED << maxCacheSize, sequentialHints >>
     /\ UNCHANGED << arlVars, riVars, fbVars, bpVars, orVars, ogVars, lcVars >>

setSequentialHint(key, blockNumber) ==
  /\ sequentialHints' = [sequentialHints EXCEPT ![key] = blockNumber]
  /\ cacheCall' = [op |-> "setSequentialHint", blockNumber |-> blockNumber, timestamp |-> Absent]
  /\ closest' = NoClosest
  /\ UNCHANGED << cache, timestampIndex, maxCacheSize, cacheOrder >>
  /\ UNCHANGED << arlVars, riVars, fbVars, bpVars, orVars, ogVars, lcVars >>

clear ==
  /\ cache' = [b \in CacheBlocks |-> Absent]
  /\ timestampIndex' = [t \in CacheTimestamps |-> << >>]
  /\ sequentialHints' = [k \in HintKeys |-> Absent]
  /\ cacheCall' = [op |-> "clear", blockNumber |-> Absent, timestamp |-> Absent]
  /\ cacheOrder' = << >>
  /\ closest' = NoClosest
  /\ UNCHANGED maxCacheSize
  /\ UNCHANGED << arlVars, riVars, fbVars, bpVars, orVars, ogVars, lcVars >>

\* An iteration that also takes an entry at the target timestamp for one
\* after it.
ClosestStepStrictBefore(found, blockNumber, cachedTimestamp, timestamp) ==
  IF cachedTimestamp < timestamp
  THEN IF found.before = NoEntry \/ cachedTimestamp > found.before.timestamp
       THEN [found EXCEPT !.before = [blockNumber |-> blockNumber,
                                      timestamp |-> cachedTimestamp]]
       ELSE found
  ELSE IF found.after = NoEntry \/ cachedTimestamp < found.after.timestamp
       THEN [found EXCEPT !.after = [blockNumber |-> blockNumber,
                                     timestamp |-> cachedTimestamp]]
       ELSE found

\* One iteration of the loop of getClosestBlocks over the entry
\* [blockNumber, cachedTimestamp]: found holds closestBefore and closestAfter.
ClosestStep(found, blockNumber, cachedTimestamp, timestamp) ==
  IF cachedTimestamp <= timestamp
  THEN IF found.before = NoEntry \/ cachedTimestamp > found.before.timestamp
       THEN [found EXCEPT !.before = [blockNumber |-> blockNumber,
                                      timestamp |-> cachedTimestamp]]
       ELSE found
  ELSE IF found.after = NoEntry \/ cachedTimestamp < found.after.timestamp
       THEN [found EXCEPT !.after = [blockNumber |-> blockNumber,
                                     timestamp |-> cachedTimestamp]]
       ELSE found

\* for (const [blockNumber, cachedTimestamp] of this.cache.entries())
RECURSIVE ClosestLoop(_, _, _)
ClosestLoop(keys, timestamp, found) ==
  IF keys = << >> THEN found
  ELSE ClosestLoop(Tail(keys), timestamp,
                   ClosestStep(found, Head(keys), cache[Head(keys)], timestamp))

\* getClosestBlocks(timestamp)
getClosestBlocks(timestamp) ==
  /\ closest' = ClosestLoop(cacheOrder, timestamp,
                            [called |-> TRUE, timestamp |-> timestamp,
                             before |-> NoEntry, after |-> NoEntry])
  /\ cacheCall' = [op |-> "getClosestBlocks", blockNumber |-> Absent, timestamp |-> timestamp]
  /\ UNCHANGED << cache, timestampIndex, maxCacheSize, sequentialHints, cacheOrder >>
  /\ UNCHANGED << arlVars, riVars, fbVars, bpVars, orVars, ogVars, lcVars >>

BTCNext ==
  \/ \E b \in CacheBlocks, t \in CacheTimestamps : set(b, t)
  \/ \E k \in HintKeys, b \in CacheBlocks : setSequentialHint(k, b)
  \/ clear
  \/ \E t \in ClosestTargets : getClosestBlocks(t)

(***************************************************************************)
(*              RoundIndexer: indexRound and the worker                    *)
(***************************************************************************)

\* The chain the indexer reads: blocks 1..NumBlocks, block b with timestamp
\* 10 * b and b % 3 boosted transactions.
NumBlocks == 4
MaxRounds == 2
MaxCalls == 2
Rounds == 1..MaxRounds
Calls == 1..MaxCalls

ChainTimestamps == [b \in 1..NumBlocks |-> 10 * b]
\* Date.now() / 1000 during the behaviour: just after the head block.
CurrentTime == ChainTimestamps[NumBlocks] + 1
\* RoundInfo.startTimestamp / endTimestamp of round r.
RoundStart(r) == 5 + 10 * r
RoundEnd(r) == RoundStart(r) + 20

\* const isOngoing = currentTime < endTimestamp
isOngoing(r) == CurrentTime < RoundEnd(r)

\* The boosted transactions of block b, in block order.
BoostedTx(b, i) == [hash |-> << b, i >>, blockNumber |-> b, value |-> 10 * b + i]
BoostedIn(b) == [i \in 1..(b % 3) |-> BoostedTx(b, i)]

RECURSIVE BoostedInRange(_, _)
BoostedInRange(from, to) ==
  IF from > to THEN << >> ELSE BoostedIn(from) \o BoostedInRange(from + 1, to)

\* BigInt.prototype.toString(): the decimal digits.
RECURSIVE BigIntToString(_)
BigIntToString(n) == IF n < 10 THEN << n >> ELSE Append(BigIntToString(n \div 10), n % 10)

\* A parse that keeps only the last digit.
BigIntOfLastDigit(d) == d[Len(d)]

\* BigInt(string): the number of a digit string.
RECURSIVE BigIntOfRec(_)
BigIntOfRec(d) ==
  IF Len(d) = 0 THEN 0 ELSE 10 * BigIntOfRec(SubSeq(d, 1, Len(d) - 1)) + d[Len(d)]
BigIntOf(d) == BigIntOfRec(d)

NoRound == [round |-> 0, startBlock |-> 0, endBlock |-> 0, transactions |-> << >>]
IndexedRoundOf(r, sb, eb, txs) ==
  [round |-> r, startBlock |-> sb, endBlock |-> eb, transactions |-> txs]

\* cacheRound's JSON: the BigInt fields as strings.
Serialize(ir) ==
  [ir EXCEPT !.transactions =
     [i \in DOMAIN ir.transactions |->
        [ir.transactions[i] EXCEPT !.value = BigIntToString(@)]]]

\* getCachedRound(round) on the file's content: null (NoRound) when the file
\* cannot be read, else the parsed object with its BigInt fields restored.
getCachedRound(file) ==
  IF file = NoRound THEN NoRound
  ELSE [file EXCEPT !.transactions =
          [i \in DOMAIN file.transactions |->
             [file.transactions[i] EXCEPT !.value = BigIntOf(@)]]]

\* Array.prototype.sort((a, b) => a.blockNumber - b.blockNumber), stable:
\* insertion of x after the elements that are not greater.
RECURSIVE SortByBlock(_)
InsertByBlock(sorted, x) ==
  LET k == Cardinality({i \in DOMAIN sorted : sorted[i].blockNumber <= x.blockNumber})
  IN SubSeq(sorted, 1, k) \o << x >> \o SubSeq(sorted, k + 1, Len(sorted))
SortByBlock(txs) ==
  IF Len(txs) = 0 THEN << >>
  ELSE InsertByBlock(SortByBlock(SubSeq(txs, 1, Len(txs) - 1)), txs[Len(txs)])

\* How a remote read ends: it returns, or throws a rate-limit signal or
\* another error.
RpcOutcomes == {"ok", "rateLimit", "error"}
NoCall == [pc |-> "idle", round |-> 0, found |-> NoRound, result |-> NoRound,
           cachedAtLookup |-> NoRound]

\* The IndexedRound of a finished round r as a complete run caches it.
CompleteIndexedRound(r) ==
  LET sb == findBlockByTimestamp(ChainTimestamps, RoundStart(r), "after")
      eb == findBlockByTimestamp(ChainTimestamps, RoundEnd(r), "before")
  IN IndexedRoundOf(r, sb, eb, SortByBlock(BoostedInRange(sb, eb)))

\* A RoundIndexer just constructed, its cache directory holding the rounds
\* pre (the directory survives the process).
RIStart(pre) ==
  /\ written = [r \in Rounds |->
                  IF r \in pre THEN CompleteIndexedRound(r) ELSE NoRound]
  /\ cacheFile = [r \in Rounds |->
                    IF r \in pre THEN Serialize(CompleteIndexedRound(r))
                    ELSE NoRound]
  /\ indexingQueue = << >>
  /\ currentlyIndexing = 0
  /\ roundStatus = [r \in Rounds |-> "none"]
  /\ isProcessing = FALSE
  /\ wPc = "idle"
  /\ wStartBlock = NullBlock
  /\ wEndBlock = NullBlock
  /\ wScanPos = 0
  /\ wTxs = << >>
  /\ trackedRounds = [r \in Rounds |-> 0]
  /\ calls = [c \in Calls |-> NoCall]
  /\ workerCompleted = {}
  /\ attemptRateLimited = FALSE
  /\ attemptSkipped = {}

\* A fresh process over a cache directory that may hold finished rounds
\* indexed by an earlier process.
RIInit == \E pre \in SUBSET { r \in Rounds : ~isOngoing(r) } : RIStart(pre)

\* A fresh process over an empty cache directory.
RIInitIdle == RIStart({})

\* A queue test that never finds the round.
InQueueNever(q, r) == FALSE

\* indexingQueue.some(item => item.roundKey === roundKey)
InQueue(q, r) == \E i \in DOMAIN q : q[i] = r

\* The top of the worker's while loop for queue q: shift the first round,
\* mark it 'indexing' and call findBlockByTimestamp(startTimestamp, 'after').
WorkerTake(q, status) ==
  LET r == Head(q)
  IN /\ indexingQueue' = Tail(q)
     /\ currentlyIndexing' = r
     /\ roundStatus' = [status EXCEPT ![r] = "indexing"]
     /\ wPc' = "findStart"
     /\ wStartBlock' = NullBlock
     /\ wEndBlock' = NullBlock
     /\ wScanPos' = 0
     /\ wTxs' = << >>
     /\ attemptRateLimited' = FALSE
     /\ attemptSkipped' = {}

\* processQueue() called from indexRound: it returns at once when a worker
\* runs or the queue is empty, else it becomes the worker.
processQueueStart(q, status) ==
  IF isProcessing \/ Len(q) = 0
  THEN /\ indexingQueue' = q
       /\ roundStatus' = status
       /\ UNCHANGED << currentlyIndexing, isProcessing, wPc, wStartBlock,
                       wEndBlock, wScanPos, wTxs, attemptRateLimited,
                       attemptSkipped >>
  ELSE /\ isProcessing' = TRUE
       /\ WorkerTake(q, status)

\* indexRound(roundInfo) up to its first await: getCachedRound reads the file.
indexRoundLookup(c, r) ==
  /\ calls[c].pc = "idle"
  /\ \A d \in Calls : d < c => calls[d].pc # "idle"
  /\ calls' = [calls EXCEPT ![c] =
                 [pc |-> "lookup", round |-> r,
                  found |-> getCachedRound(cacheFile[r]), result |-> NoRound,
                  cachedAtLookup |-> written[r]]]
  /\ UNCHANGED << cacheFile, indexingQueue, currentlyIndexing, roundStatus,
                  isProcessing, wPc, wStartBlock, wEndBlock, wScanPos, wTxs,
                  trackedRounds, written, workerCompleted, attemptRateLimited,
                  attemptSkipped >>
  /\ UNCHANGED << arlVars, fbVars, bpVars, btcVars, orVars, ogVars, lcVars >>

\* The status indexRound sets for a round found in the cache.
CacheHitStatus == "completed"

\* indexRound after the await: the cached round is returned, or the round is
\* queued, set 'pending' and the worker started.
indexRoundResume(c) ==
  LET r == calls[c].round
      found == calls[c].found
  IN /\ calls[c].pc = "lookup"
     /\ IF found # NoRound
        THEN /\ roundStatus' = [roundStatus EXCEPT ![r] = CacheHitStatus]
             /\ calls' = [calls EXCEPT ![c].pc = "returnedHit", ![c].result = found]
             /\ UNCHANGED << indexingQueue, currentlyIndexing, isProcessing, wPc,
                             wStartBlock, wEndBlock, wScanPos, wTxs,
                             attemptRateLimited, attemptSkipped >>
        ELSE /\ processQueueStart(
                  IF ~InQueue(indexingQueue, r) /\ currentlyIndexing # r
                  THEN Append(indexingQueue, r) ELSE indexingQueue,
                  [roundStatus EXCEPT ![r] = "pending"])
             /\ calls' = [calls EXCEPT ![c].pc = "waiting"]
     /\ UNCHANGED << cacheFile, trackedRounds, written, workerCompleted >>
     /\ UNCHANGED << arlVars, fbVars, bpVars, btcVars, orVars, ogVars, lcVars >>

\* One tick of indexRound's status poll (setInterval): a 'completed' round is
\* read from the cache and resolved, an 'error' round rejected.
indexRoundPoll(c) ==
  LET r == calls[c].round
  IN /\ calls[c].pc = "waiting"
     /\ roundStatus[r] \in {"completed", "error"}
     /\ calls' = [calls EXCEPT ![c] =
          IF roundStatus[r] = "completed" /\ getCachedRound(cacheFile[r]) # NoRound
          THEN [@ EXCEPT !.pc = "resolved", !.result = getCachedRound(cacheFile[r])]
          ELSE [@ EXCEPT !.pc = "rejected"]]
     /\ UNCHANGED << cacheFile, indexingQueue, currentlyIndexing, roundStatus,
                     isProcessing, wPc, wStartBlock, wEndBlock, wScanPos, wTxs,
                     trackedRounds, written, workerCompleted, attemptRateLimited,
                     attemptSkipped >>
     /\ UNCHANGED << arlVars, fbVars, bpVars, btcVars, orVars, ogVars, lcVars >>

\* catch, isRateLimit: back to the front of the queue, 'pending', sleep.
CatchRateLimit ==
  /\ indexingQueue' = << currentlyIndexing >> \o indexingQueue
  /\ roundStatus' = [roundStatus EXCEPT ![currentlyIndexing] = "pending"]
  /\ wPc' = "rateLimitSleep"
  /\ attemptRateLimited' = TRUE
  /\ UNCHANGED << currentlyIndexing, wStartBlock, wEndBlock, wScanPos, wTxs,
                  attemptSkipped >>

\* catch, any other error: 'error'; then currentlyIndexing = null and the
\* delay between rounds.
CatchError(rateLimited) ==
  /\ roundStatus' = [roundStatus EXCEPT ![currentlyIndexing] = "error"]
  /\ currentlyIndexing' = 0
  /\ wPc' = "delay"
  /\ attemptRateLimited' = rateLimited
  /\ UNCHANGED << indexingQueue, wScanPos, wTxs, attemptSkipped >>

\* findBlockByTimestamp as the worker sees it: its try/catch turns every
\* failed read, a rate-limit signal included, into null.
ResolveOrNull(o, target, position) ==
  IF o = "ok" THEN findBlockByTimestamp(ChainTimestamps, target, position)
  ELSE NullBlock

\* `if (!startBlock || !endBlock) throw`, else getTimeboostedTransactions
\* starts at startBlock (an empty range goes straight to cacheRound).
CheckRangeAndScan(sb, eb, rateLimited) ==
  IF Falsy(sb) \/ Falsy(eb)
  THEN /\ CatchError(rateLimited)
       /\ wEndBlock' = eb
  ELSE /\ wEndBlock' = eb
       /\ wScanPos' = sb
       /\ wPc' = IF sb > eb THEN "cache" ELSE "scan"
       /\ attemptRateLimited' = rateLimited
       /\ UNCHANGED << indexingQueue, currentlyIndexing, roundStatus, wTxs,
                       attemptSkipped >>

\* The worker resumes with the start block.
workerFindStart(o) ==
  /\ wPc = "findStart"
  /\ wStartBlock' = ResolveOrNull(o, RoundStart(currentlyIndexing), "after")
  /\ wPc' = IF isOngoing(currentlyIndexing) THEN "latest" ELSE "findEnd"
  /\ attemptRateLimited' = (attemptRateLimited \/ o = "rateLimit")
  /\ UNCHANGED << cacheFile, indexingQueue, currentlyIndexing, roundStatus,
                  isProcessing, wEndBlock, wScanPos, wTxs, trackedRounds, calls,
                  written, workerCompleted, attemptSkipped >>
  /\ UNCHANGED << arlVars, fbVars, bpVars, btcVars, orVars, ogVars, lcVars >>

\* Ongoing round: provider.getBlock('latest') returned or threw; the round is
\* tracked when it has a start block.
workerGetLatest(o) ==
  /\ wPc = "latest"
  /\ IF o = "ok"
     THEN /\ trackedRounds' =
               IF ~Falsy(wStartBlock) /\ ~(CurrentTime > RoundEnd(currentlyIndexing))
               THEN [trackedRounds EXCEPT ![currentlyIndexing] = wStartBlock]
               ELSE trackedRounds
          /\ CheckRangeAndScan(wStartBlock, NumBlocks, attemptRateLimited)
     ELSE /\ IF o = "rateLimit" THEN CatchRateLimit ELSE CatchError(attemptRateLimited)
          /\ UNCHANGED << trackedRounds, wEndBlock >>
  /\ UNCHANGED << cacheFile, isProcessing, wStartBlock, calls, written,
                  workerCompleted >>
  /\ UNCHANGED << arlVars, fbVars, bpVars, btcVars, orVars, ogVars, lcVars >>

\* Finished round: the worker resumes with the end block.
workerFindEnd(o) ==
  /\ wPc = "findEnd"
  /\ CheckRangeAndScan(wStartBlock,
                       ResolveOrNull(o, RoundEnd(currentlyIndexing), "before"),
                       attemptRateLimited \/ o = "rateLimit")
  /\ UNCHANGED << cacheFile, isProcessing, wStartBlock, trackedRounds, calls,
                  written, workerCompleted >>
  /\ UNCHANGED << arlVars, fbVars, bpVars, btcVars, orVars, ogVars, lcVars >>

\* processBlock(b) of the scan settled: its transactions are collected, or
\* its error was logged and swallowed, or a rate-limit error was re-thrown.
\* After the last block the result is sorted by block number.
workerScanBlock(o) ==
  LET b == wScanPos
      got == IF o = "ok" THEN wTxs \o BoostedIn(b) ELSE wTxs
      last == b + 1 > wEndBlock
  IN /\ wPc = "scan"
     /\ IF o = "rateLimit"
        THEN CatchRateLimit
        ELSE /\ wTxs' = IF last THEN SortByBlock(got) ELSE got
             /\ wScanPos' = b + 1
             /\ wPc' = IF last THEN "cache" ELSE "scan"
             /\ attemptSkipped' = IF o = "ok" THEN attemptSkipped
                                  ELSE attemptSkipped \cup {b}
             /\ roundStatus' = [roundStatus EXCEPT ![currentlyIndexing] = "indexing"]
             /\ UNCHANGED << indexingQueue, currentlyIndexing, attemptRateLimited >>
     /\ UNCHANGED << cacheFile, isProcessing, wStartBlock, wEndBlock,
                     trackedRounds, calls, written, workerCompleted >>
     /\ UNCHANGED << arlVars, fbVars, bpVars, btcVars, orVars, ogVars, lcVars >>

\* cacheRound(round, data): the file is written, or the write fails and the
\* error is logged.
cacheRound(r, data, o) ==
  /\ cacheFile' = IF o = "ok" THEN [cacheFile EXCEPT ![r] = Serialize(data)]
                  ELSE cacheFile
  /\ written' = IF o = "ok" THEN [written EXCEPT ![r] = data] ELSE written

workerCacheRound(o) ==
  /\ wPc = "cache"
  /\ cacheRound(currentlyIndexing,
                IndexedRoundOf(currentlyIndexing, wStartBlock, wEndBlock, wTxs), o)
  /\ wPc' = "dbCallback"
  /\ UNCHANGED << indexingQueue, currentlyIndexing, roundStatus, isProcessing,
                  wStartBlock, wEndBlock, wScanPos, wTxs, trackedRounds, calls,
                  workerCompleted, attemptRateLimited, attemptSkipped >>
  /\ UNCHANGED << arlVars, fbVars, bpVars, btcVars, orVars, ogVars, lcVars >>

\* databaseCallback returned: 'completed'; or it threw: 'error'.
workerDatabaseCallback(o) ==
  /\ wPc = "dbCallback"
  /\ IF o = "ok"
     THEN /\ roundStatus' = [roundStatus EXCEPT ![currentlyIndexing] = "completed"]
          /\ workerCompleted' =
               IF cacheFile[currentlyIndexing] # NoRound
               THEN workerCompleted \cup {currentlyIndexing}
               ELSE workerCompleted
          /\ currentlyIndexing' = 0
          /\ wPc' = "delay"
          /\ UNCHANGED << indexingQueue, wScanPos, wTxs, attemptRateLimited,
                          attemptSkipped >>
     ELSE /\ CatchError(attemptRateLimited)
          /\ UNCHANGED workerCompleted
  /\ UNCHANGED << cacheFile, isProcessing, wStartBlock, wEndBlock,
                  trackedRounds, calls, written >>
  /\ UNCHANGED << arlVars, fbVars, bpVars, btcVars, orVars, ogVars, lcVars >>

\* The sleep after a rate-limit requeue has ended.
workerAfterRateLimitSleep ==
  /\ wPc = "rateLimitSleep"
  /\ currentlyIndexing' = 0
  /\ wPc' = "delay"
  /\ UNCHANGED << cacheFile, indexingQueue, roundStatus, isProcessing,
                  wStartBlock, wEndBlock, wScanPos, wTxs, trackedRounds, calls,
                  written, workerCompleted, attemptRateLimited, attemptSkipped >>
  /\ UNCHANGED << arlVars, fbVars, bpVars, btcVars, orVars, ogVars, lcVars >>

\* The delay between rounds has ended: next round, or the worker exits.
workerAfterDelay ==
  /\ wPc = "delay"
  /\ IF Len(indexingQueue) > 0
     THEN /\ WorkerTake(indexingQueue, roundStatus)
          /\ UNCHANGED isProcessing
     ELSE /\ isProcessing' = FALSE
          /\ wPc' = "idle"
          /\ UNCHANGED << indexingQueue, currentlyIndexing, roundStatus,
                          wStartBlock, wEndBlock, wScanPos, wTxs,
                          attemptRateLimited, attemptSkipped >>
  /\ UNCHANGED << cacheFile, trackedRounds, calls, written, workerCompleted >>
  /\ UNCHANGED << arlVars, fbVars, bpVars, btcVars, orVars, ogVars, lcVars >>

RINext ==
  \/ \E c \in Calls, r \in Rounds : indexRoundLookup(c, r)
  \/ \E c \in Calls : indexRoundResume(c)
  \/ \E c \in Calls : indexRoundPoll(c)
  \/ \E o \in RpcOutcomes : workerFindStart(o)
  \/ \E o \in RpcOutcomes : workerGetLatest(o)
  \/ \E o \in RpcOutcomes : workerFindEnd(o)
  \/ \E o \in RpcOutcomes : workerScanBlock(o)
  \/ \E o \in {"ok", "error"} : workerCacheRound(o)
  \/ \E o \in {"ok", "error"} : workerDatabaseCallback(o)
  \/ workerAfterRateLimitSleep
  \/ workerAfterDelay

(***************************************************************************)
(*         OngoingRoundIndexer: the tracker of ongoing rounds              *)
(***************************************************************************)

\* The chain grows up to block MaxHead while the round is followed; the
\* round starts at one of the blocks 1..MaxStartBlock.
MaxHead == 5
MaxStartBlock == 3
OngoingRound == 1

NotTracked == [startBlock |-> 0, latestBlock |-> 0]
NoScan == [startBlock |-> 0, endBlock |-> 0]

\* getTimeboostedTransactions(fromBlock, toBlock) when every block is read.
getTimeboostedTransactions(fromBlock, toBlock) ==
  SortByBlock(BoostedInRange(fromBlock, toBlock))

OGStart(sb) ==
  /\ roundStartBlock = sb
  /\ chainHead = sb
  /\ roundEndBlock = 0
  /\ ongoingRounds = NotTracked
  /\ ongoingFile = NoRound
  /\ ongoingScan = NoScan

\* The round has just begun: the head is its first block.
OGInit == \E sb \in 1..MaxStartBlock : OGStart(sb)

OGInitIdle == OGStart(1)

\* The chain produces a block.
newBlock ==
  /\ chainHead < MaxHead
  /\ chainHead' = chainHead + 1
  /\ UNCHANGED << roundStartBlock, roundEndBlock, ongoingRounds, ongoingFile,
                  ongoingScan >>
  /\ UNCHANGED << arlVars, riVars, fbVars, bpVars, btcVars, orVars, lcVars >>

\* The clock passes the round's endTimestamp: the head is the round's last
\* block.
roundEnds ==
  /\ roundEndBlock = 0
  /\ roundEndBlock' = chainHead
  /\ UNCHANGED << chainHead, roundStartBlock, ongoingRounds, ongoingFile,
                  ongoingScan >>
  /\ UNCHANGED << arlVars, riVars, fbVars, bpVars, btcVars, orVars, lcVars >>

\* trackOngoingRound(roundKey, roundInfo, startBlock)
trackOngoingRound(startBlock) ==
  IF roundEndBlock # 0 THEN ongoingRounds
  ELSE [startBlock |-> startBlock, latestBlock |-> startBlock]

\* RoundIndexer.processQueue for the round, up to the call of
\* getTimeboostedTransactions: the block range is determined and an ongoing
\* round is handed to the tracker. indexRound queues the round only while it
\* has no cache file.
workerDeterminesRange ==
  /\ ongoingFile = NoRound
  /\ ongoingScan = NoScan
  /\ LET isOngoingNow == roundEndBlock = 0
         endBlock == IF isOngoingNow THEN chainHead ELSE roundEndBlock
     IN /\ ongoingRounds' = IF isOngoingNow THEN trackOngoingRound(roundStartBlock)
                            ELSE ongoingRounds
        /\ ongoingScan' = [startBlock |-> roundStartBlock, endBlock |-> endBlock]
  /\ UNCHANGED << chainHead, roundStartBlock, roundEndBlock, ongoingFile >>
  /\ UNCHANGED << arlVars, riVars, fbVars, bpVars, btcVars, orVars, lcVars >>

\* RoundIndexer.processQueue for the round, from the scan's result on: the
\* IndexedRound is cached.
workerCachesScan ==
  /\ ongoingScan # NoScan
  /\ ongoingFile' =
       Serialize(IndexedRoundOf(OngoingRound, ongoingScan.startBlock,
                                ongoingScan.endBlock,
                                getTimeboostedTransactions(ongoingScan.startBlock,
                                                           ongoingScan.endBlock)))
  /\ ongoingScan' = NoScan
  /\ UNCHANGED << chainHead, roundStartBlock, roundEndBlock, ongoingRounds >>
  /\ UNCHANGED << arlVars, riVars, fbVars, bpVars, btcVars, orVars, lcVars >>

\* updateRoundCache(roundKey, ongoingRound, latestBlock): the file after it.
\* With o = "error" getTimeboostedTransactions throws (a rate-limit error of
\* a block is re-thrown by processBlock) and the catch logs the error.
updateRoundCache(ongoingRound, latestBlock, o) ==
  LET newTransactions ==
        getTimeboostedTransactions(ongoingRound.latestBlock + 1, latestBlock)
      cachedRound == getCachedRound(ongoingFile)
  IN IF o = "ok" /\ Len(newTransactions) > 0 /\ cachedRound # NoRound
     THEN Serialize([cachedRound EXCEPT
                       !.transactions = cachedRound.transactions \o newTransactions])
     ELSE ongoingFile

\* updateOngoingRounds with the round tracked, in the branch that updates
\* the cache with the new blocks.
updateOngoingRounds(o) ==
  /\ ongoingRounds # NotTracked
  /\ ~(roundEndBlock # 0 /\ chainHead > roundEndBlock)
  /\ chainHead > ongoingRounds.latestBlock
  /\ ongoingFile' = updateRoundCache(ongoingRounds, chainHead, o)
  /\ ongoingRounds' = [ongoingRounds EXCEPT !.latestBlock = chainHead]
  /\ UNCHANGED << chainHead, roundStartBlock, roundEndBlock, ongoingScan >>
  /\ UNCHANGED << arlVars, riVars, fbVars, bpVars, btcVars, orVars, lcVars >>

\* updateOngoingRounds with the round tracked, in the branch of a round that
\* has ended: finalizeRound calls indexRound, which returns the cached round
\* when there is one, and the round is no longer tracked.
finalizeRound ==
  /\ ongoingRounds # NotTracked
  /\ roundEndBlock # 0
  /\ chainHead > roundEndBlock
  /\ ongoingScan = NoScan
  /\ ongoingFile' =
       IF ongoingFile # NoRound THEN ongoingFile
       ELSE Serialize(IndexedRoundOf(OngoingRound, ongoingRounds.startBlock,
                                     roundEndBlock,
                                     getTimeboostedTransactions(ongoingRounds.startBlock,
                                                                roundEndBlock)))
  /\ ongoingRounds' = NotTracked
  /\ UNCHANGED << chainHead, roundStartBlock, roundEndBlock, ongoingScan >>
  /\ UNCHANGED << arlVars, riVars, fbVars, bpVars, btcVars, orVars, lcVars >>

OGNext ==
  \/ newBlock
  \/ roundEnds
  \/ workerDeterminesRange
  \/ workerCachesScan
  \/ \E o \in {"ok", "error"} : updateOngoingRounds(o)
  \/ finalizeRound

(***************************************************************************)
(*                   DatabaseIndexingOrchestrator                          *)
(***************************************************************************)

\* Round numbers the event parser can know (1..MaxOrchRound), the rounds
\* that may be indexed or marked failed in persistence before start, and
\* the number of rounds whose indexing fails.
MaxOrchRound == 9
MaxInitiallyIndexed == 3
MaxDrainLoops == 2
MaxIntervalSets == 2
MaxInitiallyFailed == 1
MaxIndexingFailures == 1
OrchRounds == 1..MaxOrchRound
InitialRounds == MaxOrchRound - 1
\* ORCHESTRATOR_CONFIG
MAX_CONCURRENT_INDEXING == 2
BATCH_SIZE_PER_ITERATION == 3
INITIAL_HIGH_PRIORITY_ROUNDS == 5
IDLE_BATCH_SIZE == 10
MAX_FAILED_INDEXING_FETCH == 10
NoRoundNumber == 0

MaxOf(S) == CHOOSE x \in S : \A y \in S : y <= x

\* .sort((a, b) => Number(a - b)) of distinct numbers, and its descending
\* counterpart: the i-th element has i - 1 elements before it.
Ascending(S) ==
  [i \in 1..Cardinality(S) |->
     CHOOSE x \in S : Cardinality({ y \in S : y < x }) = i - 1]
Descending(S) ==
  [i \in 1..Cardinality(S) |->
     CHOOSE x \in S : Cardinality({ y \in S : y > x }) = i - 1]

\* Set.add, Set.delete and Array.from(set).slice(0, n) on a Set kept in
\* insertion order; SetAddAll adds the distinct elements of rs in turn.
SetAdd(q, r) == IF InQueue(q, r) THEN q ELSE Append(q, r)
SetAddAll(q, rs) == q \o SelectSeq(rs, LAMBDA r : ~InQueue(q, r))
SetDelete(q, r) == SelectSeq(q, LAMBDA x : x # r)
Slice(q, n) == SubSeq(q, 1, Min(n, Len(q)))
Rest(q, n) == SubSeq(q, Min(n, Len(q)) + 1, Len(q))

\* eventParser.getAllRounds() / getRoundInfo, isRoundInDatabase.
KnownRounds == 1..orchKnown
isRoundInDatabase(r) == r \in dbIndexed

\* getAllRoundStatuses().filter(indexing or pending).length
ActiveIndexing ==
  Cardinality({ r \in OrchRounds : indexerStatus[r] \in {"pending", "indexing"} })

\* The orchestrator constructed while the event parser knows the rounds
\* 1..known, over a persistence that marks the rounds of indexed as indexed
\* and holds the indexing status 'failed' for those of failed and
\* 'indexing' for those of started.
ORInitFrom(known, indexed, failed, started) ==
  /\ isRunning = FALSE
  /\ orchKnown = known
  /\ dbIndexed = indexed
  /\ dbFailed = failed
  /\ dbStarted = started
  /\ dbCompleted = indexed
  /\ orchIndexingQueue = << >>
  /\ backfillQueue = << >>
  /\ identifiedGaps = << >>
  /\ lastIndexedRound = NoRoundNumber
  /\ oldestIndexedRound = NoRoundNumber
  /\ idle = FALSE
  /\ indexerStatus = [r \in OrchRounds |-> "none"]
  /\ indexerQueue = << >>
  /\ gapTickDone = FALSE
  /\ intervalsArmed = FALSE
  /\ initializing = FALSE
  /\ drainBatch = << >>
  /\ drainLoops = 0
  /\ intervalSets = 0

ORInitWith(indexed, failed) == ORInitFrom(InitialRounds, indexed, failed, {})

\* The orchestrator constructed, over what persistence holds of an
\* earlier run: of the rounds 1..MaxInitiallyIndexed, those that are neither
\* indexed nor failed were being indexed when that run ended.
ORInit ==
  \E indexed \in { S \in SUBSET (1..MaxInitiallyIndexed) :
                     Cardinality(S) >= MaxInitiallyIndexed - 1 } :
    \E failed \in SUBSET ((1..MaxInitiallyFailed) \ indexed) :
      ORInitFrom(InitialRounds, indexed, failed,
                 (1..MaxInitiallyIndexed) \ (indexed \cup failed))

ORInitIdle == ORInitWith({}, {})

\* start(): initializeFromDatabase, then the three intervals are armed and
\* processQueues begins.
\* initializeFromDatabase(): the queues are filled from persistence; it
\* returns before anything is set when the event parser knows no round.
initializeFromDatabase ==
  LET failedRoundNumbers == Slice(Descending(dbFailed), MAX_FAILED_INDEXING_FETCH)
      latestRound == MaxOf(KnownRounds)
      toIndex == Descending({ r \in KnownRounds : ~isRoundInDatabase(r) })
  IN IF KnownRounds = {}
     THEN UNCHANGED << lastIndexedRound, oldestIndexedRound,
                       orchIndexingQueue, backfillQueue >>
     ELSE /\ lastIndexedRound' =
               IF dbIndexed # {} THEN MaxOf(dbIndexed) ELSE latestRound
          /\ oldestIndexedRound' = latestRound
          /\ orchIndexingQueue' =
               SetAddAll(SetAddAll(orchIndexingQueue, failedRoundNumbers),
                         Slice(toIndex, INITIAL_HIGH_PRIORITY_ROUNDS))
          /\ backfillQueue' =
               SetAddAll(backfillQueue, Rest(toIndex, INITIAL_HIGH_PRIORITY_ROUNDS))

start ==
  /\ ~isRunning
  /\ isRunning' = TRUE
  /\ initializeFromDatabase
  /\ intervalsArmed' = TRUE
  /\ intervalSets' = intervalSets + 1
  /\ drainLoops' = drainLoops + 1
  /\ gapTickDone' = FALSE
  /\ UNCHANGED << orchKnown, dbIndexed, dbFailed, dbStarted, dbCompleted,
                  identifiedGaps, idle,
                  indexerStatus, indexerQueue, initializing, drainBatch >>
  /\ UNCHANGED << arlVars, riVars, fbVars, bpVars, btcVars, ogVars >>

\* The event parser learns of a new round.
eventParserNewRound ==
  /\ orchKnown < MaxOrchRound
  /\ orchKnown' = orchKnown + 1
  /\ gapTickDone' = FALSE
  /\ UNCHANGED << isRunning, dbIndexed, dbFailed, dbStarted, dbCompleted,
                  orchIndexingQueue,
                  backfillQueue, identifiedGaps, lastIndexedRound,
                  oldestIndexedRound, idle, indexerStatus, indexerQueue >>
  /\ UNCHANGED << arlVars, riVars, fbVars, bpVars, btcVars, ogVars, lcVars >>

\* checkForNewRounds (real-time tick).
checkForNewRounds ==
  /\ intervalsArmed
  /\ lastIndexedRound # NoRoundNumber
  /\ LET newRounds == { r \in KnownRounds : r > lastIndexedRound }
     IN /\ newRounds # {}
        /\ orchIndexingQueue' = SetAddAll(orchIndexingQueue, Ascending(newRounds))
        /\ lastIndexedRound' = MaxOf(newRounds)
  /\ gapTickDone' = FALSE
  /\ UNCHANGED << isRunning, orchKnown, dbIndexed, dbFailed, dbStarted, dbCompleted,
                  backfillQueue,
                  identifiedGaps, oldestIndexedRound, idle, indexerStatus,
                  indexerQueue >>
  /\ UNCHANGED << arlVars, riVars, fbVars, bpVars, btcVars, ogVars, lcVars >>

\* More than IDLE_THRESHOLD_MS have passed since lastActivityTime.
idleThresholdPasses ==
  /\ ~idle
  /\ idle' = TRUE
  /\ gapTickDone' = FALSE
  /\ UNCHANGED << isRunning, orchKnown, dbIndexed, dbFailed, dbStarted, dbCompleted,
                  orchIndexingQueue,
                  backfillQueue, identifiedGaps, lastIndexedRound,
                  oldestIndexedRound, indexerStatus, indexerQueue >>
  /\ UNCHANGED << arlVars, riVars, fbVars, bpVars, btcVars, ogVars, lcVars >>

\* getGapRounds(limit): of each gap the first roundsToTake rounds are looked
\* at, and those known to the event parser and not indexed are taken.
RECURSIVE getGapRounds(_, _, _)
getGapRounds(gaps, limit, gapRounds) ==
  IF gaps = << >> THEN gapRounds
  ELSE LET gap == Head(gaps)
           gapSize == gap.end - gap.start + 1
           roundsToTake == Min(gapSize, limit - Len(gapRounds))
           taken == gapRounds \o
                    Ascending({ r \in gap.start .. (gap.start + roundsToTake - 1) :
                                  r \in KnownRounds /\ ~isRoundInDatabase(r) })
       IN IF Len(taken) >= limit THEN taken
          ELSE getGapRounds(Tail(gaps), limit, taken)

MaxConcurrent ==
  IF idle THEN MAX_CONCURRENT_INDEXING * 2 ELSE MAX_CONCURRENT_INDEXING

\* intelligentBackfill (backfill tick).
intelligentBackfill ==
  /\ intervalsArmed
  /\ LET batchSize_ == IF idle THEN IDLE_BATCH_SIZE ELSE BATCH_SIZE_PER_ITERATION
         gapRounds == getGapRounds(identifiedGaps, batchSize_, << >>)
         roundsToBackfill == Slice(backfillQueue, batchSize_)
     IN IF ActiveIndexing >= MaxConcurrent
        THEN UNCHANGED << orchIndexingQueue, backfillQueue, oldestIndexedRound >>
        ELSE IF gapRounds # << >>
        THEN /\ orchIndexingQueue' = SetAddAll(orchIndexingQueue, gapRounds)
             /\ UNCHANGED << backfillQueue, oldestIndexedRound >>
        ELSE /\ backfillQueue' = Rest(backfillQueue, batchSize_)
             /\ orchIndexingQueue' = SetAddAll(orchIndexingQueue, roundsToBackfill)
             /\ oldestIndexedRound' =
                  IF roundsToBackfill = << >> THEN oldestIndexedRound
                  ELSE Min(oldestIndexedRound,
                           MinOf({ roundsToBackfill[i] : i \in DOMAIN roundsToBackfill }))
  /\ gapTickDone' = FALSE
  /\ UNCHANGED << isRunning, orchKnown, dbIndexed, dbFailed, dbStarted, dbCompleted,
                  identifiedGaps,
                  lastIndexedRound, idle, indexerStatus, indexerQueue >>
  /\ UNCHANGED << arlVars, riVars, fbVars, bpVars, btcVars, ogVars, lcVars >>

\* The gaps between neighbours of the ascending list of indexed rounds.
RECURSIVE GapsBetween(_)
GapsBetween(roundNumbers) ==
  IF Len(roundNumbers) < 2 THEN << >>
  ELSE (IF roundNumbers[2] - roundNumbers[1] > 1
        THEN << [start |-> roundNumbers[1] + 1, end |-> roundNumbers[2] - 1] >>
        ELSE << >>) \o GapsBetween(Tail(roundNumbers))

\* detectAndFillGaps (gap-detection tick).  No code writes the indexing
\* status 'pending' that findPending selects, so nothing is re-queued.
detectAndFillGaps ==
  /\ intervalsArmed
  /\ LET roundNumbers == Ascending(dbIndexed)
         gaps == GapsBetween(roundNumbers)
     IN identifiedGaps' =
          IF Len(roundNumbers) >= 2 /\ gaps # << >> THEN gaps ELSE identifiedGaps
  /\ gapTickDone' = TRUE
  /\ UNCHANGED << isRunning, orchKnown, dbIndexed, dbFailed, dbStarted, dbCompleted,
                  orchIndexingQueue,
                  backfillQueue, lastIndexedRound, oldestIndexedRound, idle,
                  indexerStatus, indexerQueue >>
  /\ UNCHANGED << arlVars, riVars, fbVars, bpVars, btcVars, ogVars, lcVars >>

\* A round whose record is not marked indexed but which has a status in the
\* RoundIndexer handed over all the same.
ShouldIndexWhateverStatus(roundNumber, status) ==
  roundNumber \in KnownRounds /\ ~isRoundInDatabase(roundNumber)

\* `if (round)`, `if (!dbRound || !dbRound.indexed)` and `if (!status)`.
ShouldIndex(roundNumber, status) ==
  /\ roundNumber \in KnownRounds
  /\ ~isRoundInDatabase(roundNumber)
  /\ status[roundNumber] = "none"

\* One round of processQueues' batch: a round that is not indexed and has
\* no status is marked started and handed to RoundIndexer.indexRound, which
\* queues it as 'pending'; the round leaves the indexing queue.
\* A round the event parser has no RoundInfo for is passed over and stays
\* in the indexing queue.
RECURSIVE HandOver(_, _)
HandOver(batch, st) ==
  IF batch = << >> THEN st
  ELSE LET roundNumber == Head(batch)
           hand == ShouldIndex(roundNumber, st.status)
       IN HandOver(Tail(batch),
            [status |-> IF hand THEN [st.status EXCEPT ![roundNumber] = "pending"]
                        ELSE st.status,
             queue |-> IF hand THEN Append(st.queue, roundNumber) ELSE st.queue,
             failed |-> IF hand THEN st.failed \ {roundNumber} ELSE st.failed,
             started |-> IF hand THEN st.started \cup {roundNumber} ELSE st.started,
             completed |-> IF hand THEN st.completed \ {roundNumber}
                           ELSE st.completed])

\* The persistence and the RoundIndexer as a pass of processQueues finds
\* them.
Persisted ==
  [status |-> indexerStatus, queue |-> indexerQueue, failed |-> dbFailed,
   started |-> dbStarted, completed |-> dbCompleted]

\* this.indexingQueue.delete(roundNumber), inside `if (round)`.
DeleteHandled(q, batch) ==
  SelectSeq(q, LAMBDA r : ~(InQueue(batch, r) /\ r \in KnownRounds))

\* processQueues, one iteration of the loop: the first
\* BATCH_SIZE_PER_ITERATION rounds of the indexing queue are handled in
\* turn.
processQueues ==
  /\ isRunning
  /\ orchIndexingQueue # << >>
  /\ LET roundsToIndex == Slice(orchIndexingQueue, BATCH_SIZE_PER_ITERATION)
         after == HandOver(roundsToIndex, Persisted)
     IN /\ indexerStatus' = after.status
        /\ indexerQueue' = after.queue
        /\ dbFailed' = after.failed
        /\ dbStarted' = after.started
        /\ dbCompleted' = after.completed
        /\ orchIndexingQueue' = DeleteHandled(orchIndexingQueue, roundsToIndex)
  /\ gapTickDone' = FALSE
  /\ UNCHANGED << isRunning, orchKnown, dbIndexed, backfillQueue,
                  identifiedGaps, lastIndexedRound, oldestIndexedRound, idle >>
  /\ UNCHANGED << arlVars, riVars, fbVars, bpVars, btcVars, ogVars, lcVars >>

\* RoundIndexer's worker takes the oldest pending round.
indexerTakes ==
  /\ indexerQueue # << >>
  /\ \A r \in OrchRounds : indexerStatus[r] # "indexing"
  /\ indexerStatus' = [indexerStatus EXCEPT ![Head(indexerQueue)] = "indexing"]
  /\ indexerQueue' = Tail(indexerQueue)
  /\ gapTickDone' = FALSE
  /\ UNCHANGED << isRunning, orchKnown, dbIndexed, dbFailed, dbStarted, dbCompleted,
                  orchIndexingQueue,
                  backfillQueue, identifiedGaps, lastIndexedRound,
                  oldestIndexedRound, idle >>
  /\ UNCHANGED << arlVars, riVars, fbVars, bpVars, btcVars, ogVars, lcVars >>

\* The round being indexed finishes: completed, its record marked indexed
\* by the database callback and indexRound's promise resolved
\* (lastActivityTime, markAsCompleted); or failed (markAsFailed).
indexerFinishes(o) ==
  /\ \E r \in OrchRounds :
       /\ indexerStatus[r] = "indexing"
       /\ IF o = "completed"
          THEN /\ indexerStatus' = [indexerStatus EXCEPT ![r] = "completed"]
               /\ dbIndexed' = dbIndexed \cup {r}
               /\ dbFailed' = dbFailed \ {r}
               /\ dbStarted' = dbStarted \ {r}
               /\ dbCompleted' = dbCompleted \cup {r}
               /\ idle' = FALSE
          ELSE /\ Cardinality({ x \in OrchRounds : indexerStatus[x] = "error" })
                    < MaxIndexingFailures
               /\ indexerStatus' = [indexerStatus EXCEPT ![r] = "error"]
               /\ dbFailed' = dbFailed \cup {r}
               /\ dbStarted' = dbStarted \ {r}
               /\ dbCompleted' = dbCompleted \ {r}
               /\ UNCHANGED << dbIndexed, idle >>
  /\ gapTickDone' = FALSE
  /\ UNCHANGED << isRunning, orchKnown, orchIndexingQueue, backfillQueue,
                  identifiedGaps, lastIndexedRound, oldestIndexedRound,
                  indexerQueue >>
  /\ UNCHANGED << arlVars, riVars, fbVars, bpVars, btcVars, ogVars, lcVars >>

\* start() up to its await of initializeFromDatabase.
startCall ==
  /\ ~isRunning
  /\ ~initializing
  /\ drainLoops < MaxDrainLoops
  /\ intervalSets < MaxIntervalSets
  /\ isRunning' = TRUE
  /\ initializing' = TRUE
  /\ gapTickDone' = FALSE
  /\ UNCHANGED << orchKnown, dbIndexed, dbFailed, dbStarted, dbCompleted,
                  orchIndexingQueue,
                  backfillQueue, identifiedGaps, lastIndexedRound,
                  oldestIndexedRound, idle, indexerStatus, indexerQueue,
                  intervalsArmed, drainBatch, drainLoops, intervalSets >>
  /\ UNCHANGED << arlVars, riVars, fbVars, bpVars, btcVars, ogVars >>

\* start() from initializeFromDatabase on: the queues are filled, the three
\* intervals are set and processQueues() is called.
startResumes ==
  /\ initializing
  /\ initializing' = FALSE
  /\ initializeFromDatabase
  /\ intervalsArmed' = TRUE
  /\ intervalSets' = intervalSets + 1
  /\ drainLoops' = IF isRunning THEN drainLoops + 1 ELSE drainLoops
  /\ gapTickDone' = FALSE
  /\ UNCHANGED << isRunning, orchKnown, dbIndexed, dbFailed, dbStarted, dbCompleted,
                  identifiedGaps,
                  idle, indexerStatus, indexerQueue, drainBatch >>
  /\ UNCHANGED << arlVars, riVars, fbVars, bpVars, btcVars, ogVars >>

\* stop(): the timers whose handles the fields hold are cleared.
stop ==
  /\ isRunning \/ intervalsArmed
  /\ isRunning' = FALSE
  /\ intervalsArmed' = FALSE
  /\ intervalSets' = IF intervalsArmed THEN intervalSets - 1 ELSE intervalSets
  /\ gapTickDone' = FALSE
  /\ UNCHANGED << orchKnown, dbIndexed, dbFailed, dbStarted, dbCompleted,
                  orchIndexingQueue,
                  backfillQueue, identifiedGaps, lastIndexedRound,
                  oldestIndexedRound, idle, indexerStatus, indexerQueue,
                  initializing, drainBatch, drainLoops >>
  /\ UNCHANGED << arlVars, riVars, fbVars, bpVars, btcVars, ogVars >>

\* processQueues, the top of an iteration: `while (this.isRunning)` and the
\* slice of the indexing queue.
drainTakesSlice ==
  /\ isRunning
  /\ ~initializing
  /\ drainBatch = << >>
  /\ orchIndexingQueue # << >>
  /\ drainBatch' = Slice(orchIndexingQueue, BATCH_SIZE_PER_ITERATION)
  /\ gapTickDone' = FALSE
  /\ UNCHANGED << isRunning, orchKnown, dbIndexed, dbFailed, dbStarted, dbCompleted,
                  orchIndexingQueue,
                  backfillQueue, identifiedGaps, lastIndexedRound,
                  oldestIndexedRound, idle, indexerStatus, indexerQueue,
                  intervalsArmed, initializing, drainLoops, intervalSets >>
  /\ UNCHANGED << arlVars, riVars, fbVars, bpVars, btcVars, ogVars >>

\* processQueues, one pass of its for loop: after the awaited reads the
\* round is handed over or dropped, and leaves the indexing queue.
drainHandlesRound ==
  /\ drainBatch # << >>
  /\ LET after == HandOver(<< Head(drainBatch) >>, Persisted)
     IN /\ indexerStatus' = after.status
        /\ indexerQueue' = after.queue
        /\ dbFailed' = after.failed
        /\ dbStarted' = after.started
        /\ dbCompleted' = after.completed
  /\ orchIndexingQueue' = DeleteHandled(orchIndexingQueue, << Head(drainBatch) >>)
  /\ drainBatch' = Tail(drainBatch)
  /\ gapTickDone' = FALSE
  /\ UNCHANGED << isRunning, orchKnown, dbIndexed, backfillQueue,
                  identifiedGaps, lastIndexedRound, oldestIndexedRound, idle,
                  intervalsArmed, initializing, drainLoops, intervalSets >>
  /\ UNCHANGED << arlVars, riVars, fbVars, bpVars, btcVars, ogVars >>

\* processQueues returns: a loop comes back from its sleep and finds
\* `while (this.isRunning)` false.
drainLoopReturns ==
  /\ ~isRunning
  /\ drainLoops > 0
  /\ drainBatch = << >>
  /\ drainLoops' = drainLoops - 1
  /\ gapTickDone' = FALSE
  /\ UNCHANGED << isRunning, orchKnown, dbIndexed, dbFailed, dbStarted,
                  dbCompleted, orchIndexingQueue, backfillQueue,
                  identifiedGaps, lastIndexedRound, oldestIndexedRound, idle,
                  indexerStatus, indexerQueue, intervalsArmed, initializing,
                  drainBatch, intervalSets >>
  /\ UNCHANGED << arlVars, riVars, fbVars, bpVars, btcVars, ogVars >>

\* The orchestrator started and stopped at any moment, its drain loop step
\* by step.
ORStopNext ==
  \/ startCall
  \/ startResumes
  \/ stop
  \/ intelligentBackfill
  \/ detectAndFillGaps
  \/ drainTakesSlice
  \/ drainHandlesRound
  \/ drainLoopReturns
  \/ indexerTakes
  \/ \E o \in {"completed", "error"} : indexerFinishes(o)

ORNext ==
  \/ start
  \/ eventParserNewRound
  \/ checkForNewRounds
  \/ idleThresholdPasses
  \/ intelligentBackfill
  \/ detectAndFillGaps
  \/ processQueues
  \/ indexerTakes
  \/ \E o \in {"completed", "error"} : indexerFinishes(o)

ARLNext ==
  \/ \E t \in Tasks : execute(t)
  \/ processQueueAfterBackoff
  \/ processQueueAfterSleep
  \/ \E t \in Tasks, v \in TaskValues : executeRequestSuccess(t, v)
  \/ \E t \in Tasks, e \in Errors : executeRequestFailure(t, e)
  \/ \E ie \in BOOLEAN, rs \in BOOLEAN : adjustConcurrency(ie, rs)

\* The limiter alone, the other components at rest.
InitARL ==
  /\ ARLInit
  /\ RIInitIdle
  /\ FBInitIdle
  /\ BPInitDefault
  /\ BTCInitIdle
  /\ ORInitIdle
  /\ OGInitIdle

SpecARL == InitARL /\ [][ARLNext]_vars

\* The round indexer alone, the limiter as TransactionIndexer constructs it.
InitRI ==
  /\ RIInit
  /\ ARLInitDefault
  /\ FBInitIdle
  /\ BPInitDefault
  /\ BTCInitIdle
  /\ ORInitIdle
  /\ OGInitIdle

SpecRI == InitRI /\ [][RINext]_vars

\* One call of the resolver over every chain, the rest at rest.
InitResolver ==
  /\ FBInit
  /\ ARLInitDefault
  /\ RIInitIdle
  /\ BPInitDefault
  /\ BTCInitIdle
  /\ ORInitIdle
  /\ OGInitIdle

SpecResolver == InitResolver /\ [][FBNext]_vars

\* One call of the resolver, every read of which settles, over chains with
\* blocks that no fetch returns.
SpecResolverLive ==
  /\ InitResolver
  /\ [][FBLiveNext]_vars
  /\ WF_vars(fbReadSettles)
  /\ WF_vars(fbContinue)

\* The batch provider alone.
InitBatch ==
  /\ BPInit
  /\ ARLInitDefault
  /\ RIInitIdle
  /\ FBInitIdle
  /\ BTCInitIdle
  /\ ORInitIdle
  /\ OGInitIdle

SpecBatch == InitBatch /\ [][BPNext]_vars

\* The block timestamp cache alone, for every capacity.
InitCache ==
  /\ BTCInit
  /\ ARLInitDefault
  /\ RIInitIdle
  /\ FBInitIdle
  /\ BPInitDefault
  /\ ORInitIdle
  /\ OGInitIdle

SpecCache == InitCache /\ [][BTCNext]_vars

\* The orchestrator with the RoundIndexer's worker, the rest at rest.
InitOrch ==
  /\ ORInit
  /\ ARLInitDefault
  /\ RIInitIdle
  /\ FBInitIdle
  /\ BPInitDefault
  /\ BTCInitIdle
  /\ OGInitIdle

SpecOrch == InitOrch /\ [][ORNext]_vars

\* The orchestrator started over a persistence in which the rounds 1 and
\* InitialRounds are indexed and the rounds between them are not, with no
\* newer round arriving.
InitOrchFair ==
  /\ ORInitWith({1, InitialRounds}, {})
  /\ ARLInitDefault
  /\ RIInitIdle
  /\ FBInitIdle
  /\ BPInitDefault
  /\ BTCInitIdle
  /\ OGInitIdle

ORFairNext ==
  \/ start
  \/ idleThresholdPasses
  \/ intelligentBackfill
  \/ detectAndFillGaps
  \/ processQueues
  \/ indexerTakes
  \/ \E o \in {"completed", "error"} : indexerFinishes(o)

\* start() is called, the setInterval ticks keep firing while the
\* orchestrator runs, the drain loop keeps iterating, the idle threshold
\* passes when nothing completes, and the RoundIndexer's worker takes and
\* finishes the rounds it is given.
SpecOrchFair ==
  /\ InitOrchFair
  /\ [][ORFairNext]_vars
  /\ WF_vars(start)
  /\ WF_vars(idleThresholdPasses)
  /\ WF_vars(intelligentBackfill)
  /\ WF_vars(detectAndFillGaps)
  /\ WF_vars(processQueues)
  /\ WF_vars(indexerTakes)
  /\ WF_vars(\E o \in {"completed", "error"} : indexerFinishes(o))

\* The tracker and the worker over one ongoing round, for every start
\* block.
InitOngoing ==
  /\ OGInit
  /\ ARLInitDefault
  /\ RIInitIdle
  /\ FBInitIdle
  /\ BPInitDefault
  /\ BTCInitIdle
  /\ ORInitIdle

SpecOngoing == InitOngoing /\ [][OGNext]_vars

\* The limiter from the point on from which no task fails: the interval
\* timer keeps firing, and before every tick at least MinSamples requests
\* have completed, the last one inside the success window.
InitRecovery ==
  /\ ARLInitRecovering
  /\ RIInitIdle
  /\ FBInitIdle
  /\ BPInitDefault
  /\ BTCInitIdle
  /\ ORInitIdle
  /\ OGInitIdle

SpecRecovery ==
  /\ InitRecovery
  /\ [][ARLRecoveryNext]_vars
  /\ WF_vars(successfulBurst)
  /\ WF_vars(adjustConcurrency(TRUE, TRUE))

\* The limiter between bursts of requests: ticks of adjustConcurrency after
\* bursts that succeeded or failed, and single requests that run and fail.
MaxRampTasks == 1
RampTasks == 1..MaxRampTasks

ARLRampNext ==
  \/ successfulBurst
  \/ failedBurst
  \/ \E ie \in BOOLEAN, rs \in BOOLEAN : adjustConcurrency(ie, rs)
  \/ \E t \in RampTasks : execute(t)
  \/ processQueueAfterBackoff
  \/ processQueueAfterSleep
  \/ \E t \in RampTasks, e \in Errors : executeRequestFailure(t, e)

InitRamp ==
  /\ ARLInitRecovering
  /\ RIInitIdle
  /\ FBInitIdle
  /\ BPInitDefault
  /\ BTCInitIdle
  /\ ORInitIdle
  /\ OGInitIdle

SpecRamp == InitRamp /\ [][ARLRampNext]_vars

\* The limiter constructed with any of the option objects, partial ones
\* included.
InitARLAnyOptions ==
  /\ ARLInitFrom(OptionSets \cup PartialOptionSets)
  /\ RIInitIdle
  /\ FBInitIdle
  /\ BPInitDefault
  /\ BTCInitIdle
  /\ ORInitIdle
  /\ OGInitIdle

SpecARLAnyOptions == InitARLAnyOptions /\ [][ARLNext]_vars

\* getClosestBlocks over every cache content and every target.
InitClosest ==
  /\ BTCInitFilled
  /\ ARLInitDefault
  /\ RIInitIdle
  /\ FBInitIdle
  /\ BPInitDefault
  /\ ORInitIdle
  /\ OGInitIdle

ClosestNext == \E t \in ClosestTargets : getClosestBlocks(t)

SpecClosest == InitClosest /\ [][ClosestNext]_vars

\* The orchestrator over a persistence that holds all rounds but the latest
\* BATCH_SIZE_PER_ITERATION ones, started and stopped at any moment.
InitOrchStop ==
  /\ ORInitWith(1..(InitialRounds - BATCH_SIZE_PER_ITERATION), {})
  /\ ARLInitDefault
  /\ RIInitIdle
  /\ FBInitIdle
  /\ BPInitDefault
  /\ BTCInitIdle
  /\ OGInitIdle

SpecOrchStop == InitOrchStop /\ [][ORStopNext]_vars

\* The limiter as TransactionIndexer constructs it, with tasks submitted at
\* any moment: the timers of its sleeps fire, and every task that was
\* started returns or throws.
MaxLiveTasks == 3
LiveTasks == 1..MaxLiveTasks
LiveErrors ==
  { [code |-> 429, status |-> 0, message |-> ""],
    [code |-> 0, status |-> 500, message |-> "timeout"] }

taskSettles ==
  \/ \E t \in LiveTasks : executeRequestSuccess(t, "v1")
  \/ \E t \in LiveTasks, e \in LiveErrors : executeRequestFailure(t, e)

ARLLiveNext ==
  \/ \E t \in LiveTasks : execute(t)
  \/ processQueueAfterBackoff
  \/ processQueueAfterSleep
  \/ \E t \in LiveTasks : executeRequestSuccess(t, "v1")
  \/ \E t \in LiveTasks, e \in LiveErrors : executeRequestFailure(t, e)

InitARLLive ==
  /\ ARLInitDefault
  /\ RIInitIdle
  /\ FBInitIdle
  /\ BPInitDefault
  /\ BTCInitIdle
  /\ ORInitIdle
  /\ OGInitIdle

SpecARLLive ==
  /\ InitARLLive
  /\ [][ARLLiveNext]_vars
  /\ WF_vars(processQueueAfterBackoff)
  /\ WF_vars(processQueueAfterSleep)
  /\ WF_vars(taskSettles)

\* The legacy limiter alone.
InitLegacy ==
  /\ BPInitDefault
  /\ ARLInitDefault
  /\ RIInitIdle
  /\ FBInitIdle
  /\ BTCInitIdle
  /\ ORInitIdle
  /\ OGInitIdle

SpecLegacy == InitLegacy /\ [][RLNext]_vars

\* The orchestrator constructed before the event parser knows any round,
\* over a persistence that holds the indexing status 'failed' for the round
\* MaxOrchRound; rounds become known before and after start().
InitOrchLive ==
  /\ ORInitFrom(0, {}, {MaxOrchRound}, {})
  /\ ARLInitDefault
  /\ RIInitIdle
  /\ FBInitIdle
  /\ BPInitDefault
  /\ BTCInitIdle
  /\ OGInitIdle

ORLiveNext ==
  \/ start
  \/ eventParserNewRound
  \/ checkForNewRounds
  \/ processQueues
  \/ indexerTakes
  \/ indexerFinishes("completed")

\* start() is called, the real-time tick keeps firing, the drain loop keeps
\* iterating and the RoundIndexer's worker takes and completes the rounds
\* it is given; nothing obliges the chain to open a further round.
SpecOrchLive ==
  /\ InitOrchLive
  /\ [][ORLiveNext]_vars
  /\ WF_vars(start)
  /\ WF_vars(checkForNewRounds)
  /\ WF_vars(processQueues)
  /\ WF_vars(indexerTakes)
  /\ WF_vars(indexerFinishes("completed"))

(***************************************************************************)
(*                 Properties of AdaptiveRateLimiter                       *)
(***************************************************************************)

\* C1 (as stated): in every reachable state the number of executing tasks
\* is at most the current concurrency limit.
C1_ActiveNeverExceedsLimit == activeRequests <= currentConcurrency

\* C1 (amended): a step that starts tasks never takes the number of
\* executing tasks above the concurrency limit in force; the limit can only
\* be exceeded by lowering it under tasks already in flight.
C1_DispatchWithinLimit ==
  [][activeRequests' > activeRequests => activeRequests' <= currentConcurrency']_vars

\* C1 witness: the limit binds: tasks wait in the queue while as many tasks
\* as the limit allows are executing.
C1_Witness ==
  /\ Len(queue) > 0
  /\ activeRequests = currentConcurrency
  /\ activeRequests >= 2

\* C2: after a rate-limit failure no queued task is started before the
\* dispatcher has begun (and ended) a backoff sleep after that failure.
C2_PauseBeforeNextDispatch ==
  [][activeRequests' > activeRequests => ~owedPause]_vars

\* The rate-limit signals as the claim lists them.
RateLimitSignal(e) ==
  \/ e.code = 429
  \/ e.status = 429
  \/ e.message \in {"HTTP 429", "Rate limit exceeded", "Too Many Requests"}

\* floor(c * pct / 100) as the integer k with k <= c * pct / 100 < k + 1.
FloorOfRatio(c, pct) ==
  CHOOSE k \in 0..(c * pct) : k * 100 <= c * pct /\ c * pct < (k + 1) * 100

\* C3: the step that handles a task failing with a rate-limit signal leaves
\* currentConcurrency and targetConcurrency both equal to
\* max(minConcurrency, floor(C_before * decreaseRatio)).
C3_ConcurrencyCut ==
  [][(settles' # settles /\ lastSettle'.kind = "rejected"
        /\ RateLimitSignal(lastSettle'.produced))
     => /\ currentConcurrency' =
             Max(minConcurrency, FloorOfRatio(currentConcurrency, decreaseRatioPct))
        /\ targetConcurrency' = currentConcurrency']_vars

\* C3 witness: a rate-limit failure was handled where the floor rounds
\* (3 * 0.7 = 2.1) and the state shows the cut.
C3_Witness ==
  /\ lastSettle.kind = "rejected"
  /\ RateLimitSignal(lastSettle.produced)
  /\ decreaseRatioPct = 70
  /\ currentConcurrency = 2
  /\ targetConcurrency = 2
  /\ rateLimitCount = 1

C5_IdempotentIndexing ==
  /\ [](\A c \in Calls :
          calls[c].pc = "returnedHit" =>
            /\ calls[c].result # NoRound
            /\ calls[c].result = calls[c].cachedAtLookup)
  /\ [](\A c, d \in Calls :
          (/\ calls[c].pc = "returnedHit"
           /\ calls[d].pc = "returnedHit"
           /\ calls[c].cachedAtLookup = calls[d].cachedAtLookup)
          => calls[c].result = calls[d].result)
  /\ [][\A c \in Calls :
          (calls[c].pc = "lookup" /\ calls'[c].pc # "lookup"
             /\ calls[c].cachedAtLookup # NoRound)
          => /\ calls'[c].pc = "returnedHit"
             /\ roundStatus'[calls[c].round] = "completed"
             /\ UNCHANGED << indexingQueue, currentlyIndexing, isProcessing, wPc,
                             cacheFile >>]_vars

\* C5 witness: two calls for the same cached round have both returned it,
\* and it holds transactions.
C5_Witness ==
  \E c, d \in Calls :
    /\ c # d
    /\ calls[c].pc = "returnedHit"
    /\ calls[d].pc = "returnedHit"
    /\ calls[c].round = calls[d].round
    /\ Len(calls[c].result.transactions) >= 2
    /\ roundStatus[calls[c].round] = "completed"

\* C6: once the worker has completed a round and its IndexedRound is in the
\* cache, the worker never takes that round from the queue again.
C6_NoRescanAfterCompletion ==
  [][\A r \in Rounds :
       (r \in workerCompleted /\ cacheFile[r] # NoRound)
       => ~(currentlyIndexing' = r /\ currentlyIndexing # r)]_vars

\* C7: a round whose status is 'completed' has an IndexedRound in the cache
\* whose transactions are the boosted transactions of every block of its
\* range [startBlock, endBlock].
C7_CompletedMeansCompleteAndPersisted ==
  \A r \in Rounds :
    roundStatus[r] = "completed" =>
      /\ cacheFile[r] # NoRound
      /\ getCachedRound(cacheFile[r]).transactions =
           SortByBlock(BoostedInRange(getCachedRound(cacheFile[r]).startBlock,
                                      getCachedRound(cacheFile[r]).endBlock))

\* C8: a round does not become 'error' in an attempt in which a remote read
\* failed with a rate-limit signal.
C8_RateLimitNeverTerminal ==
  [][\A r \in Rounds :
       (roundStatus'[r] = "error" /\ roundStatus[r] # "error")
       => ~attemptRateLimited']_vars

(***************************************************************************)
(*                      Properties of the resolver                         *)
(***************************************************************************)

\* The blocks of the chain that qualify for the call in progress.
Qualifying ==
  IF fbPosition = "after"
  THEN { b \in DOMAIN fbChain : fbChain[b] >= fbTarget }
  ELSE { b \in DOMAIN fbChain : fbChain[b] <= fbTarget }

\* C9: a call of findBlockByTimestamp whose reads all succeeded returns,
\* for 'after', the smallest block whose timestamp is >= target and, for
\* 'before', the largest block whose timestamp is <= target; when no block
\* qualifies it returns null or a number its callers take for 'no block'
\* (`!startBlock || !endBlock`).
C9_ResolverCorrect ==
  (fbPc = "done" /\ ~fbReadFailed) =>
    IF Qualifying = {} THEN Falsy(fbResult)
    ELSE /\ fbResult \in Qualifying
         /\ \A b \in Qualifying :
              IF fbPosition = "after" THEN fbResult <= b ELSE b <= fbResult

(***************************************************************************)
(*                     Properties of BatchProvider                         *)
(***************************************************************************)

\* The responses of an array that carry the id of a request.
OwnResponses(responses, id) ==
  { j \in DOMAIN responses : responses[j].id = id }

\* C10: the step in which a flush is settled with the transport's response
\* array settles every request of the flushed batch exactly once, and from a
\* response that carries its own id: resolved with that response's result,
\* rejected with that response's error message, or rejected with 'No
\* response for request' when no response carries its id; the step settles
\* no request outside the batch, and no request is ever settled twice.
C10_BatchMatching ==
  /\ [](\A id \in Requests : reqSettles[id] <= 1)
  /\ [][(wire.kind = "responses" /\ wire' = NoWire) =>
          /\ lastFlush'.batch = Head(inFlight)
          /\ \A id \in Requests :
               reqSettles'[id] =
                 reqSettles[id] + (IF InBatch(Head(inFlight), id) THEN 1 ELSE 0)
          /\ \A i \in DOMAIN Head(inFlight) :
               LET own == OwnResponses(wire.responses, Head(inFlight)[i])
               IN IF own = {}
                  THEN lastFlush'.outcomes[i] = Rejected(NoResponseMessage)
                  ELSE \E j \in own :
                         IF wire.responses[j].error # Nothing
                         THEN lastFlush'.outcomes[i] = Rejected(wire.responses[j].error)
                         ELSE lastFlush'.outcomes[i] = Resolved(wire.responses[j].result)]_vars

\* C10 witness: one flush of five requests was answered with four
\* responses; the one request without a response is rejected with 'No
\* response for request' and the other four are resolved, each with its own
\* result.
C10_Witness ==
  /\ lastFlush.batch = << 1, 2, 3, 4, 5 >>
  /\ lastFlush.answered
  /\ lastFlush.responses = 4
  /\ \E missing \in 1..5 :
       \A i \in 1..5 :
         lastFlush.outcomes[i] = IF i = missing THEN Rejected(NoResponseMessage)
                                 ELSE Resolved(ResultOf(i))

\* C11: when the wire call of a flush fails (a rate-limit signal or another
\* HTTP or network error), every request of that flush is rejected with the
\* error the wire call threw and none is resolved, and no request outside
\* that flush is settled by it.  Stated on the step in which processBatch
\* resumes for a flush one of whose wire calls failed.
C11_TransportFailureRejectsFlush ==
  [][(wire # NoWire /\ wire' = NoWire /\ wireFailure # Nothing)
       => /\ \A i \in DOMAIN Head(inFlight) :
               lastFlush'.outcomes[i] = Rejected(wireFailure)
          /\ \A id \in Requests :
               reqSettles'[id] = reqSettles[id]
                 + (IF InBatch(Head(inFlight), id) THEN 1 ELSE 0)]_vars

\* C12: a buffered request never waits without a flush timer: after every
\* step that does not itself trigger a flush (hand a batch to the wire), a
\* non-empty buffer has its timer armed, so that the buffered requests are
\* flushed after batchDelay without another request having to arrive.  For
\* every batchSize, with and without dynamicBatchSize, and after
\* updateBatchSize.
C12_TimerArmedWhileBuffered ==
  [][(Len(inFlight') <= Len(inFlight) /\ batchQueue' # << >>)
       => batchTimer']_vars

(***************************************************************************)
(*                 Properties of BlockTimestampCache                       *)
(***************************************************************************)

\* C13: the cache never holds more than maxCacheSize entries, and a
\* set(b, t) on a cache that holds exactly maxCacheSize entries removes
\* exactly one entry, that of the smallest block number cached before the
\* call (which b's new entry replaces when b is that block), and leaves
\* exactly maxCacheSize entries with get(b) = t.
C13_CapacityAndEviction ==
  [][/\ Cardinality(cacheKeys(cache')) <= maxCacheSize
     /\ (cacheCall'.op = "set" /\ Cardinality(cacheKeys(cache)) = maxCacheSize)
          => LET oldest == MinOf(cacheKeys(cache))
                 b == cacheCall'.blockNumber
             IN /\ cacheKeys(cache) \ cacheKeys(cache') \subseteq {oldest}
                /\ (oldest # b => cache'[oldest] = Absent)
                /\ Cardinality(cacheKeys(cache')) = maxCacheSize
                /\ cache'[b] = cacheCall'.timestamp]_vars

\* C14: for every timestamp t, getBlocksByTimestamp(t) is the ascending
\* list without duplicates of the blocks b cached with get(b) = t, after
\* any sequence of set (re-sets with another timestamp and evicting sets
\* included) and clear.
C14_ReverseIndexConsistent ==
  \A t \in CacheTimestamps :
    LET blocks == getBlocksByTimestamp(t)
    IN /\ { blocks[i] : i \in DOMAIN blocks } = { b \in CacheBlocks : get(b) = t }
       /\ \A i, j \in DOMAIN blocks : i < j => blocks[i] < blocks[j]

(***************************************************************************)
(*              Properties of DatabaseIndexingOrchestrator                 *)
(***************************************************************************)

\* The closed intervals between neighbouring indexed rounds.
ExpectedGaps ==
  { << p[1] + 1, p[2] - 1 >> :
      p \in { q \in dbIndexed \X dbIndexed :
                /\ q[2] - q[1] > 1
                /\ ~ \E c \in dbIndexed : q[1] < c /\ c < q[2] } }

\* C15: after a gap-detection tick identifiedGaps lists, in ascending
\* order, exactly the intervals [a+1, b-1] of the neighbouring indexed
\* rounds a < b with b - a > 1, and no interval of it includes a round
\* that is indexed.
C15_GapsExact ==
  gapTickDone =>
    /\ { << identifiedGaps[i].start, identifiedGaps[i].end >> :
           i \in DOMAIN identifiedGaps } = ExpectedGaps
    /\ \A i, j \in DOMAIN identifiedGaps :
         i < j => identifiedGaps[i].end < identifiedGaps[j].start
    /\ \A i \in DOMAIN identifiedGaps :
         \A r \in dbIndexed : r < identifiedGaps[i].start \/ r > identifiedGaps[i].end

\* C16: the number of rounds handed to the RoundIndexer and not finished
\* (status 'pending' or 'indexing') never exceeds MAX_CONCURRENT_INDEXING,
\* doubled while the orchestrator is idle.
C16_BoundedRoundConcurrency == ActiveIndexing <= MaxConcurrent

\* C17: while the orchestrator runs, if from some point on the number of
\* active rounds stays below the ceiling (so it is below it at every
\* backfill tick), a non-empty backfillQueue is eventually emptied: every
\* round in it is eventually moved into the indexing queue, whatever gaps
\* are identified and whether or not their rounds stay unindexed.
C17_BackfillNotStarved ==
  (<>[](ActiveIndexing < MaxConcurrent))
    => ((backfillQueue # << >>) ~> (backfillQueue = << >>))

(***************************************************************************)
(*                 Properties of OngoingRoundIndexer                       *)
(***************************************************************************)

\* C18: in every state the transactions of the cached IndexedRound are in
\* ascending order of block number, after the worker's scan and after every
\* append of the tracker.
C18_TransactionsSortedByBlock ==
  LET txs == getCachedRound(ongoingFile).transactions
  IN \A i, j \in DOMAIN txs : i < j => txs[i].blockNumber <= txs[j].blockNumber

\* C19: in every state no transaction hash occurs twice in the transactions
\* of the cached IndexedRound, the round indexed over [startBlock, head] and
\* then extended by the tracker included.
C19_UniqueTransactionHashes ==
  LET txs == getCachedRound(ongoingFile).transactions
  IN \A i, j \in DOMAIN txs : i # j => txs[i].hash # txs[j].hash

(***************************************************************************)
(*          Recovery of AdaptiveRateLimiter after a rate-limit cut         *)
(***************************************************************************)

\* C20: when no task fails and every adjustment tick sees at least
\* MinSamples completed requests with a recent success, each tick strictly
\* increases the target concurrency while it is below maxConcurrency, and
\* currentConcurrency eventually reaches maxConcurrency, from every starting
\* value in [minConcurrency, maxConcurrency].
C20_ConcurrencyRecovers ==
  /\ [][(successCount >= MinSamples /\ successCount' = 0
           /\ targetConcurrency < maxConcurrency)
          => targetConcurrency' > targetConcurrency]_vars
  /\ <>(currentConcurrency = maxConcurrency)

(***************************************************************************)
(*              Further properties of AdaptiveRateLimiter                  *)
(***************************************************************************)

\* C21: in every reachable state, whatever the options of the constructor,
\* the task outcomes and the adjustment ticks, currentConcurrency and
\* targetConcurrency lie in [minConcurrency, maxConcurrency].
C21_ConcurrencyWithinBounds ==
  /\ minConcurrency <= currentConcurrency
  /\ currentConcurrency <= maxConcurrency
  /\ minConcurrency <= targetConcurrency
  /\ targetConcurrency <= maxConcurrency

(***************************************************************************)
(*              Further properties of BlockTimestampCache                  *)
(***************************************************************************)

\* C22: what getClosestBlocks(target) returns: before is an entry of the
\* cache with the greatest timestamp <= target, undefined when there is
\* none; after is an entry of the cache with the smallest timestamp >
\* target, undefined when there is none.
C22_ClosestBlocks ==
  closest.called =>
    LET notAfter == { b \in cacheKeys(cache) : cache[b] <= closest.timestamp }
        later == { b \in cacheKeys(cache) : cache[b] > closest.timestamp }
    IN /\ (notAfter = {}) => closest.before = NoEntry
       /\ (notAfter # {}) =>
            /\ closest.before.blockNumber \in notAfter
            /\ closest.before.timestamp = cache[closest.before.blockNumber]
            /\ \A b \in notAfter : cache[b] <= closest.before.timestamp
       /\ (later = {}) => closest.after = NoEntry
       /\ (later # {}) =>
            /\ closest.after.blockNumber \in later
            /\ closest.after.timestamp = cache[closest.after.blockNumber]
            /\ \A b \in later : closest.after.timestamp <= cache[b]

\* getClosestBlocks has returned both entries from a cache in which two
\* blocks share the timestamp of one of them.
C22_Witness ==
  /\ closest.called
  /\ closest.before # NoEntry
  /\ closest.after # NoEntry
  /\ \E b \in cacheKeys(cache) :
       /\ b # closest.before.blockNumber
       /\ cache[b] = closest.before.timestamp

(***************************************************************************)
(*           Further properties of DatabaseIndexingOrchestrator            *)
(***************************************************************************)

\* C23: once stop() has returned (isRunning is false) the three intervals
\* are cleared, so that no handler of theirs starts; no step hands a further
\* round to the RoundIndexer; and a round handed over before stays with the
\* RoundIndexer until it settles, its completion or failure being recorded
\* in persistence at that moment.
C23_StopQuiesces ==
  /\ [](~isRunning => ~intervalsArmed)
  /\ [][~isRunning =>
          /\ Len(indexerQueue') <= Len(indexerQueue)
          /\ \A r \in OrchRounds :
               /\ indexerStatus[r] = "pending"
                    => indexerStatus'[r] \in {"pending", "indexing"}
               /\ indexerStatus[r] = "indexing"
                    => indexerStatus'[r] \in {"indexing", "completed", "error"}
               /\ (indexerStatus[r] = "indexing" /\ indexerStatus'[r] = "completed")
                    => r \in dbIndexed'
               /\ (indexerStatus[r] = "indexing" /\ indexerStatus'[r] = "error")
                    => r \in dbFailed']_vars

(***************************************************************************)
(*              Further properties of AdaptiveRateLimiter                  *)
(***************************************************************************)

\* C24: tasks are started in the order in which execute() was called (the
\* order of the task ids): the queue holds the waiting tasks oldest first,
\* and a task never has its fn called while one submitted before it still
\* waits, whatever the concurrency limit and the backoff are.
C24_FifoAdmission ==
  /\ \A i, j \in DOMAIN queue : i < j => queue[i] < queue[j]
  /\ \A t, u \in Tasks :
       (t < u /\ invoked[u] > 0 /\ taskState[t] # "new") => invoked[t] > 0
  /\ \A t \in Tasks : taskState[t] = "queued" <=> (\E i \in DOMAIN queue : queue[i] = t)

\* A task runs and two wait behind it, after a rate-limit failure lowered the
\* limit and made the loop pause.
C24_Witness ==
  /\ rateLimitCount > 0
  /\ currentConcurrency = minConcurrency
  /\ activeRequests = currentConcurrency
  /\ Len(queue) >= 2
  /\ \E t \in Tasks : taskState[t] = "running" /\ t < Head(queue)

\* C25: a tick of adjustConcurrency changes currentConcurrency by one at
\* most, towards the target the tick computed and never past it; no step
\* raises it by more than one, and a step that lowers it by more than one is
\* a rate-limit failure.
C25_SlowRamp ==
  [][/\ currentConcurrency' <= currentConcurrency + 1
     /\ currentConcurrency' < currentConcurrency - 1
          => rateLimitCount' = rateLimitCount + 1
     /\ (successCount + failureCount >= MinSamples /\ successCount' = 0 /\ failureCount' = 0)
          => /\ currentConcurrency < targetConcurrency'
                  => currentConcurrency' = currentConcurrency + 1
             /\ currentConcurrency > targetConcurrency'
                  => currentConcurrency' = currentConcurrency - 1
             /\ currentConcurrency = targetConcurrency'
                  => currentConcurrency' = currentConcurrency]_vars

\* After ticks the target is two or more above the current concurrency.
C25_Witness ==
  /\ targetConcurrency >= currentConcurrency + 2
  /\ successCount = 0
  /\ failureCount = 0

(***************************************************************************)
(*                  Further properties of RoundIndexer                     *)
(***************************************************************************)

\* C26: one worker loop at most is active (isProcessing is set exactly
\* while the loop is somewhere in its body, and a loop starts only when none
\* runs), one round at most is being indexed, no round is twice in the
\* indexing queue, and the queue changes only by a round appended at its
\* end, by the worker taking its first round, or by the worker putting the
\* round it was indexing back at the front after a rate-limit failure.
C26_SingleDrainFifo ==
  /\ [](/\ isProcessing <=> wPc # "idle"
        /\ currentlyIndexing # 0 => (isProcessing /\ wPc # "delay")
        /\ \A i, j \in DOMAIN indexingQueue :
             i # j => indexingQueue[i] # indexingQueue[j])
  /\ [][/\ (isProcessing' /\ ~isProcessing) => wPc = "idle"
        /\ (currentlyIndexing' # 0 /\ currentlyIndexing' # currentlyIndexing)
             => /\ currentlyIndexing = 0
                /\ \/ /\ indexingQueue # << >>
                      /\ currentlyIndexing' = Head(indexingQueue)
                      /\ indexingQueue' = Tail(indexingQueue)
                   \/ /\ indexingQueue = << >>
                      /\ indexingQueue' = << >>
                      /\ ~isProcessing
        /\ \/ indexingQueue' = indexingQueue
           \/ \E r \in Rounds : indexingQueue' = Append(indexingQueue, r)
           \/ /\ indexingQueue # << >>
              /\ indexingQueue' = Tail(indexingQueue)
              /\ currentlyIndexing' = Head(indexingQueue)
           \/ /\ currentlyIndexing # 0
              /\ indexingQueue' = << currentlyIndexing >> \o indexingQueue
              /\ wPc' = "rateLimitSleep"]_vars

\* The worker sleeps after a rate-limit failure of a round that it put back
\* in front of another queued round.
C26_Witness ==
  /\ wPc = "rateLimitSleep"
  /\ Len(indexingQueue) >= 2
  /\ Head(indexingQueue) = currentlyIndexing

\* The worker is inside an attempt: between taking a round and the catch or
\* the end of the try block.
InAttempt == wPc \in {"findStart", "latest", "findEnd", "scan", "cache", "dbCallback"}

\* C27: when the attempt on round r ends in failure and a remote read of it
\* failed with a rate-limit signal, r is put back at the front of the queue
\* with status 'pending' and the worker sleeps, r staying first in the queue
\* during that sleep; when it ends in any other failure r becomes 'error',
\* is not in the queue and is no longer the current round; and a round
\* whose status is 'error' is neither queued nor being indexed, which only a
\* further indexRound changes.
C27_FailureHandling ==
  /\ [](/\ wPc = "rateLimitSleep"
             => (indexingQueue # << >> /\ Head(indexingQueue) = currentlyIndexing)
        /\ \A r \in Rounds :
             roundStatus[r] = "error"
               => (~InQueue(indexingQueue, r) /\ currentlyIndexing # r))
  /\ [][(/\ InAttempt
         /\ wPc' \in {"delay", "rateLimitSleep"}
         /\ roundStatus'[currentlyIndexing] # "completed")
        => IF attemptRateLimited'
           THEN /\ indexingQueue' = << currentlyIndexing >> \o indexingQueue
                /\ roundStatus'[currentlyIndexing] = "pending"
                /\ wPc' = "rateLimitSleep"
           ELSE /\ roundStatus'[currentlyIndexing] = "error"
                /\ ~InQueue(indexingQueue', currentlyIndexing)
                /\ currentlyIndexing' = 0]_vars

\* The transitions of a round's status: (none) -> pending, pending ->
\* indexing, indexing -> completed, indexing -> error, and back to pending
\* for a requeue.
StatusTransitions ==
  { << "none", "pending" >>, << "pending", "indexing" >>,
    << "indexing", "completed" >>, << "indexing", "error" >>,
    << "indexing", "pending" >>, << "error", "pending" >>,
    << "completed", "pending" >> }

\* C28: the status of a round changes only along StatusTransitions (two of
\* them in a row when indexRound sets 'pending' and starts the worker in the
\* same synchronous run, or to 'completed' for a round whose IndexedRound is
\* in the cache); it is
\* 'indexing' exactly while the worker is inside its attempt on that round;
\* and no step moves the round the worker is attempting from 'indexing' to
\* 'pending' unless the worker itself puts it back into the queue.
C28_StatusStateMachine ==
  /\ [](\A r \in Rounds :
          roundStatus[r] = "indexing" <=> (currentlyIndexing = r /\ InAttempt))
  /\ [][\A r \in Rounds :
          /\ roundStatus'[r] # roundStatus[r]
               => \/ << roundStatus[r], roundStatus'[r] >> \in StatusTransitions
                  \/ /\ << roundStatus[r], "pending" >> \in StatusTransitions
                     /\ roundStatus'[r] = "indexing"
                  \/ roundStatus'[r] = "completed" /\ cacheFile[r] # NoRound
          /\ (currentlyIndexing = r /\ InAttempt /\ roundStatus'[r] = "pending")
               => InQueue(indexingQueue', r)]_vars

(***************************************************************************)
(*               Further properties of OngoingRoundIndexer                 *)
(***************************************************************************)

\* C29: when the tracker finalizes the round (the round has ended, the head
\* is past its end block, the end block is resolved) and stops tracking it,
\* the cached IndexedRound has the round's start block, the resolved end
\* block as endBlock, and exactly the boosted transactions of the blocks
\* startBlock..endBlock, as a full scan of that range returns them.
C29_FinalizationReindexes ==
  [][(ongoingRounds # NotTracked /\ ongoingRounds' = NotTracked)
       => /\ ongoingFile' # NoRound
          /\ getCachedRound(ongoingFile').startBlock = ongoingRounds.startBlock
          /\ getCachedRound(ongoingFile').endBlock = roundEndBlock
          /\ getCachedRound(ongoingFile').transactions =
               getTimeboostedTransactions(ongoingRounds.startBlock, roundEndBlock)]_vars

\* How often transaction x occurs in txs.
Occurrences(txs, x) == Cardinality({ k \in DOMAIN txs : txs[k] = x })

\* C30: while the round is tracked, latestBlock never decreases, and a step
\* that advances it from l to l2 leaves every boosted transaction of the
\* blocks l+1..l2 in the cached IndexedRound; and once the round has its
\* cache file, each boosted transaction of the blocks startBlock..latestBlock
\* is in it exactly once.
C30_DeltaUpdatesCoverOnce ==
  /\ [](( ongoingRounds # NotTracked /\ ongoingFile # NoRound)
          => \A b \in ongoingRounds.startBlock..ongoingRounds.latestBlock :
               \A i \in DOMAIN BoostedIn(b) :
                 Occurrences(getCachedRound(ongoingFile).transactions,
                             BoostedIn(b)[i]) = 1)
  /\ [][(ongoingRounds # NotTracked /\ ongoingRounds' # NotTracked)
          => /\ ongoingRounds'.latestBlock >= ongoingRounds.latestBlock
             /\ \A b \in (ongoingRounds.latestBlock + 1)..ongoingRounds'.latestBlock :
                  \A i \in DOMAIN BoostedIn(b) :
                    Occurrences(getCachedRound(ongoingFile').transactions,
                                BoostedIn(b)[i]) >= 1]_vars

(***************************************************************************)
(*                 Further properties of the resolver                      *)
(***************************************************************************)

\* C31: a probe that returns no block changes neither low nor high, so that
\* the next probe is of the same block, and it neither ends the search nor
\* sets a result.
C31_NullProbeKeepsInterval ==
  [][fbNullProbes' = fbNullProbes + 1
       => /\ fbLow' = fbLow
          /\ fbHigh' = fbHigh
          /\ (fbLow' + fbHigh') \div 2 = (fbLow + fbHigh) \div 2
          /\ fbPc' = "search"
          /\ fbResult' = fbResult]_vars

\* A search that met a probe without a block after it had narrowed the
\* interval, and went on to return a block.
C31_Witness ==
  /\ fbNullProbes > 0
  /\ fbPc = "done"
  /\ ~fbReadFailed
  /\ fbResult # NullBlock
  /\ fbLow > 1

(***************************************************************************)
(*          Further properties of DatabaseIndexingOrchestrator             *)
(***************************************************************************)

\* The rounds a run that ended left open: their indexing status in
\* persistence is 'indexing' and the RoundIndexer holds no status for them.
StaleRounds == { r \in dbStarted : indexerStatus[r] = "none" }

\* C32: after every gap-detection tick, each round that markAsStarted left
\* with an open indexing status and that nothing is indexing any more is in
\* indexingQueue, however many rounds are indexed.
C32_StaleRoundsRequeued ==
  [][gapTickDone'
       => \A r \in StaleRounds : InQueue(orchIndexingQueue', r)]_vars

\* The rounds on which RoundIndexer.indexRound is called in a step.
NewlyQueued ==
  { r \in OrchRounds : InQueue(indexerQueue', r) /\ ~InQueue(indexerQueue, r) }

QueuesDisjoint ==
  \A r \in OrchRounds :
    ~(InQueue(orchIndexingQueue, r) /\ InQueue(backfillQueue, r))

\* C34: the last-seen round never decreases; a real-time tick puts every
\* known round above it in indexingQueue and raises it to the highest of
\* them; and once the orchestrator runs, every round the event parser
\* knows comes to be enqueued, also when it knew none at start().
C34_NewRoundsEnqueued ==
  /\ [][lastIndexedRound' >= lastIndexedRound]_vars
  /\ [][(isRunning /\ lastIndexedRound' > lastIndexedRound)
          => /\ \A r \in KnownRounds :
                  r > lastIndexedRound => InQueue(orchIndexingQueue', r)
             /\ lastIndexedRound' = MaxOf(KnownRounds)]_vars
  /\ \A r \in OrchRounds :
       (isRunning /\ r \in KnownRounds)
         ~> \/ InQueue(orchIndexingQueue, r)
            \/ InQueue(backfillQueue, r)
            \/ indexerStatus[r] # "none"

\* C35: start() leaves every failed round and the
\* INITIAL_HIGH_PRIORITY_ROUNDS most recent unindexed rounds in
\* indexingQueue and every other unindexed round in backfillQueue; and no
\* round is ever in both queues.
C35_StartupPartition ==
  /\ [][(~isRunning /\ isRunning')
          => LET unindexed == { r \in KnownRounds : ~isRoundInDatabase(r) }
                 recent == { r \in unindexed :
                               Cardinality({ x \in unindexed : x > r })
                                 < INITIAL_HIGH_PRIORITY_ROUNDS }
             IN /\ \A r \in dbFailed \cup recent : InQueue(orchIndexingQueue', r)
                /\ \A r \in unindexed \ (dbFailed \cup recent) :
                     InQueue(backfillQueue', r)]_vars
  /\ []QueuesDisjoint

\* C37: while the orchestrator runs, every round in indexingQueue comes to
\* be removed from it, whether or not the event parser has a RoundInfo for
\* its number.
C37_ActiveQueueDrains ==
  \A r \in OrchRounds :
    (isRunning /\ InQueue(orchIndexingQueue, r))
      ~> ~InQueue(orchIndexingQueue, r)

\* C38: whatever start() and stop() calls are made, at most one call of
\* processQueues is alive and at most one timer of each kind is set.
C38_SingleDrainLoop ==
  /\ drainLoops <= 1
  /\ intervalSets <= 1

(***************************************************************************)
(*                  Properties of the legacy RateLimiter                   *)
(***************************************************************************)

\* C36: fn is called at most LegacyRetries times for a task; every
\* rate-limit failure is followed by a wait that starts at 1000 ms, doubles
\* with each further rate-limit failure up to 60000 ms and starts again at
\* 1000 ms after a success; the task whose last attempt is rate limited is
\* rejected; a task whose call fails with another error is rejected with
\* that error without a further call, its first failure after one call;
\* at most one task runs at a time and the tasks run in the order of
\* their submission.
C36_LegacyRetryPolicy ==
  /\ [](/\ \A t \in LegacyTasks : legacyAttempts[t] <= LegacyRetries
        /\ retryDelay >= InitialRetryDelay
        /\ retryDelay <= MaxRetryDelay
        /\ legacyStreak = 0 => retryDelay = InitialRetryDelay
        /\ Cardinality({ t \in LegacyTasks : legacyState[t] = "running" }) <= 1
        /\ \A t, u \in LegacyTasks :
             (t < u /\ legacyState[u] \in {"running", "resolved", "rejected"})
               => legacyState[t] \in {"resolved", "rejected"}
        /\ \A t \in LegacyTasks :
             legacyError[t] = RetriesExhausted
               => legacyAttempts[t] = LegacyRetries)
  /\ [][/\ legacyStreak' = legacyStreak + 1
          => /\ legacyWait' = Min(InitialRetryDelay * 2 ^ legacyStreak, MaxRetryDelay)
             /\ \A t \in LegacyTasks :
                  (legacyState[t] = "running" /\ legacyAttempts[t] = LegacyRetries)
                    => legacyState'[t] = "rejected"
     /\ \A t \in LegacyTasks :
          (legacyState'[t] = "rejected" /\ legacyState[t] = "running"
             /\ legacyStreak' = legacyStreak)
            => /\ legacyError'[t] \in WireErrors
               /\ ~LegacyIs429(legacyError'[t])
               /\ legacyAttempts'[t] = legacyAttempts[t]]_vars

\* Three tasks were rate limited on every attempt and the delay is at its
\* cap.
C36_Witness ==
  /\ \A t \in LegacyTasks :
       /\ legacyState[t] = "rejected"
       /\ legacyError[t] = RetriesExhausted
  /\ retryDelay = MaxRetryDelay

(***************************************************************************)
(*               Further properties of AdaptiveRateLimiter                 *)
(***************************************************************************)

RECURSIVE CeilLog2(_)
CeilLog2(n) == IF n <= 1 THEN 0 ELSE 1 + CeilLog2((n + 1) \div 2)

\* C40: every call of findBlockByTimestamp returns, also when the fetch of
\* a probed block gives no block every time; it makes at most
\* ceil(log2(latest)) + 1 comparisons, and each comparison either ends the
\* search or strictly shrinks the interval [low, high].
C40_ResolverTerminates ==
  /\ <>(fbPc = "done")
  /\ [](fbProbes <= CeilLog2(Len(fbChain)) + 1)
  /\ [][fbProbes' = fbProbes + 1
          => \/ fbPc' = "done"
             \/ /\ fbHigh' - fbLow' < fbHigh - fbLow
                /\ fbLow' >= fbLow
                /\ fbHigh' <= fbHigh]_vars

\* The part of C40 that holds: the bound on the comparisons and the
\* shrinking interval.
ComparisonsBounded ==
  /\ [](fbProbes <= CeilLog2(Len(fbChain)) + 1)
  /\ [][fbProbes' = fbProbes + 1
          => \/ fbPc' = "done"
             \/ fbHigh' - fbLow' < fbHigh - fbLow]_vars

====
